---- MODULE Spec2Model ----
(***************************************************************************)
(* Model of the data exchange service of net-lib: the DataServer           *)
(* (controller side and forked worker processes), the DataHandler HTTP     *)
(* handlers and the DataClient, with the values they exchange pickled on   *)
(* the wire.                                                               *)
(***************************************************************************)
EXTENDS Integers, Sequences, FiniteSets, Bags, TLC

(***************************************************************************)
(* Python values.  Every value is a record of the same shape: its type,    *)
(* the text of a scalar, the items of a dict.                              *)
(***************************************************************************)
PyNone == [type |-> "NoneType", val |-> "", items |-> <<>>]
PyStr(s) == [type |-> "str", val |-> s, items |-> <<>>]
PyInt(s) == [type |-> "int", val |-> s, items |-> <<>>]
PyDict(d) == [type |-> "dict", val |-> "", items |-> d]

\* An argument left at its default None (AddData's hostname=None, key=None).
NoArg == "<None>"

\* The values clients Send.
Payloads == {PyStr("hi"), PyInt("7")}

\* Client addresses (client_address[0]) and the controller's loopback.
Addresses == {"10.0.0.5", "10.0.0.6"}
LOCAL_LOOPBACK == "127.0.0.1"

\* What socket.gethostbyname makes of the hostnames handed to AddData;
\* "nohost" does not resolve (socket.gaierror).
gethostbyname(h) == IF h = "hostA" THEN "10.0.0.5" ELSE "gaierror"

GET_ALL_DATA == "9e5bb17c123c0cda16cd16e742a55c72"

\* The paths of the GETs.
GetPaths == {"", "cfg", GET_ALL_DATA}

\* The most worker processes alive at the same time, the most calls the
\* controller makes and the most requests clients make in one run.
MaxProcs == 2
MaxCalls == 3
MaxRequests == 2

(***************************************************************************)
(* len() and '%d' of Python.                                               *)
(***************************************************************************)
HasLen(v) == v.type \in {"str", "dict"}
PyLen(v) == IF v.type = "str" THEN Len(v.val) ELSE Cardinality(DOMAIN v.items)

Digit(n) == <<"0", "1", "2", "3", "4", "5", "6", "7", "8", "9">>[n + 1]
RECURSIVE FormatInt(_)
FormatInt(n) == IF n < 10 THEN Digit(n) ELSE FormatInt(n \div 10) \o Digit(n % 10)

\* str(type(data)), the text of the python-type header.
TypeHeader(v) == "<type '" \o v.type \o "'>"

(***************************************************************************)
(* cPickle, protocol 0, as the stack machine it is: dumps writes opcodes,  *)
(* loads runs them.                                                        *)
(***************************************************************************)
RECURSIVE DumpsValue(_)
RECURSIVE DumpsItems(_)
DumpsItems(d) ==
    IF DOMAIN d = {} THEN <<>>
    ELSE LET k == CHOOSE x \in DOMAIN d : TRUE
             rest == [x \in DOMAIN d \ {k} |-> d[x]]
         IN <<"S", k>> \o DumpsValue(d[k]) \o <<"s">> \o DumpsItems(rest)
DumpsValue(v) ==
    CASE v.type = "NoneType" -> <<"N">>
      [] v.type = "str" -> <<"S", v.val>>
      [] v.type = "int" -> <<"I", v.val>>
      [] v.type = "dict" -> <<"(", "d">> \o DumpsItems(v.items)
dumps(v) == DumpsValue(v) \o <<".">>

RECURSIVE LoadsRun(_, _, _)
LoadsRun(ops, i, stack) ==
    LET op == ops[i]
        n == Len(stack)
    IN CASE op = "." -> stack[n]
         [] op = "N" -> LoadsRun(ops, i + 1, Append(stack, PyNone))
         [] op = "S" -> LoadsRun(ops, i + 2, Append(stack, PyStr(ops[i + 1])))
         [] op = "I" -> LoadsRun(ops, i + 2, Append(stack, PyInt(ops[i + 1])))
         [] op = "(" -> LoadsRun(ops, i + 1, stack)
         [] op = "d" -> LoadsRun(ops, i + 1, Append(stack, PyDict(<<>>)))
         [] op = "s" ->
              LET value == stack[n]
                  key == stack[n - 1].val
                  dict == stack[n - 2]
                  items == [x \in DOMAIN dict.items \cup {key} |->
                               IF x = key THEN value ELSE dict.items[x]]
              IN LoadsRun(ops, i + 1,
                          Append(SubSeq(stack, 1, n - 3), PyDict(items)))
loads(ops) == LoadsRun(ops, 1, <<>>)

(***************************************************************************)
(* The stores of one process: DataServer's class attributes.  A store maps *)
(* strings to Python values.                                               *)
(***************************************************************************)
EmptyStore == <<>>
Put(store, k, v) == [x \in DOMAIN store \cup {k} |-> IF x = k THEN v ELSE store[x]]

NewStores(all, ip, recv) ==
    [all_data_store |-> all, ip_data_store |-> ip, data_recv |-> recv]

\* DataServer.GetCallback with the address looked up before the path.
GetCallbackAddressFirst(S, address, path) ==
    IF path = GET_ALL_DATA THEN PyDict(S.data_recv)
    ELSE IF address \in DOMAIN S.ip_data_store THEN S.ip_data_store[address]
    ELSE IF path \in DOMAIN S.all_data_store THEN S.all_data_store[path]
    ELSE PyNone

\* DataServer.GetCallback without the fallback to the client's address.
GetCallbackNoFallback(S, address, path) ==
    IF path = GET_ALL_DATA THEN PyDict(S.data_recv)
    ELSE IF path \in DOMAIN S.all_data_store THEN S.all_data_store[path]
    ELSE PyNone

\* DataServer.GetCallback: the value for a client, None when there is none.
GetCallback(S, address, path) ==
    IF path = GET_ALL_DATA THEN PyDict(S.data_recv)
    ELSE IF path \in DOMAIN S.all_data_store THEN S.all_data_store[path]
    ELSE IF address \in DOMAIN S.ip_data_store THEN S.ip_data_store[address]
    ELSE PyNone

\* '%s_%s' % (path, address)
CompositeKey(path, address) == path \o "_" \o address

\* '%s = %d Bytes' % (key, len(data))
Confirmation(key, data) == key \o " = " \o FormatInt(PyLen(data)) \o " Bytes"

\* The outcome of a callback: the stores it leaves, what it returns, and the
\* exception it raises instead of returning ("none" when it returns).
Outcome(S, ret, exc) == [stores |-> S, ret |-> ret, exc |-> exc]

\* The statements of PostCallback's else branch.
StoreAndConfirm(S, key, data) ==
    LET T == [S EXCEPT !.data_recv = Put(S.data_recv, key, data)]
    IN IF HasLen(data)
       THEN Outcome(T, PyStr(Confirmation(key, data)), "none")
       ELSE Outcome(T, PyNone, "TypeError")

\* DataServer.PostCallback without the test for GET_ALL_DATA.
PostCallbackNoReservedTest(S, address, path, data) ==
    StoreAndConfirm(S, CompositeKey(path, address), data)

\* DataServer.PostCallback keeping the first value stored under a key.
PostCallbackFirstWins(S, address, path, data) ==
    LET key == CompositeKey(path, address)
    IN IF path = GET_ALL_DATA THEN Outcome(S, PyNone, "none")
       ELSE IF key \in DOMAIN S.data_recv
            THEN Outcome(S, PyStr(Confirmation(key, data)), "none")
            ELSE StoreAndConfirm(S, key, data)

\* DataServer.PostCallback: stores data under path_address; len(data) is
\* taken after the store and raises TypeError for a value without a length.
PostCallback(S, address, path, data) ==
    IF path = GET_ALL_DATA THEN Outcome(S, PyNone, "none")
    ELSE StoreAndConfirm(S, CompositeKey(path, address), data)

(***************************************************************************)
(* The wire.  A request carries a path ('/' + key), the content-type and   *)
(* python-type headers ("" when absent) and a body; a response a status    *)
(* (0: the connection was closed without one), the python-type header and  *)
(* a body.  Bodies are sequences of pickle opcodes or of text.             *)
(***************************************************************************)
Request(method, path, ctype, pytype, body) ==
    [method |-> method, path |-> path, ctype |-> ctype, pytype |-> pytype,
     body |-> body]
Response(status, pytype, body) ==
    [status |-> status, pytype |-> pytype, body |-> body]
NoResponse == Response(0, "", <<>>)

\* self.path[1:]
StripSlash(path) == SubSeq(path, 2, Len(path))

RECURSIVE Concat(_)
Concat(body) == IF body = <<>> THEN "" ELSE Head(body) \o Concat(Tail(body))

\* What a handler leaves: the stores and the response.
Handled(S, resp) == [stores |-> S, resp |-> resp]

\* DataHandler.do_GET
do_GET(S, address, req) ==
    LET data == GetCallback(S, address, StripSlash(req.path))
    IN IF data # PyNone
       THEN Handled(S, Response(200, TypeHeader(data), dumps(data)))
       ELSE Handled(S, Response(404, "", <<>>))

\* The data do_POST reads from a request: unpickled when the python-type
\* header is set, the raw body otherwise, '' for another content-type.
PostedData(req) ==
    IF req.ctype = "text/text"
    THEN IF req.pytype # "" THEN loads(req.body) ELSE PyStr(Concat(req.body))
    ELSE PyStr("")

\* DataHandler.do_POST; an exception of the callback ends the request
\* without a response (SocketServer's handle_error).
do_POST(S, address, req) ==
    LET data == PostedData(req)
        out == PostCallback(S, address, StripSlash(req.path), data)
    IN IF out.exc # "none" THEN Handled(out.stores, NoResponse)
       ELSE IF out.ret # PyNone
            THEN Handled(out.stores, Response(200, "", <<out.ret.val>>))
            ELSE Handled(out.stores, Response(404, "", <<>>))

(***************************************************************************)
(* DataClient.  Recv and Send build the request; RecvResult and SendResult *)
(* are what the call makes of the response.                                *)
(***************************************************************************)
RecvRequest(key) == Request("GET", "/" \o key, "text/text", "", <<>>)
SendRequest(data, key) ==
    Request("POST", "/" \o key, "text/text", TypeHeader(data), dumps(data))

\* What a call of the client ends with: the value it returns, or the
\* exception it raises.
Returned(value) == [value |-> value, exc |-> "none"]
Raised(exc) == [value |-> PyNone, exc |-> exc]

\* DataClient.Recv taking 200 alone for success.
RecvResultOnly200(resp) ==
    IF resp.status = 0 THEN Raised("BadStatusLine")
    ELSE IF resp.status = 200
         THEN IF resp.pytype # "" THEN Returned(loads(resp.body))
              ELSE Returned(PyStr(Concat(resp.body)))
         ELSE Returned(PyNone)

\* DataClient.Recv from getresponse() on; no response is httplib's
\* BadStatusLine.
RecvResult(resp) ==
    IF resp.status = 0 THEN Raised("BadStatusLine")
    ELSE IF resp.status >= 200 /\ resp.status <= 206
         THEN IF resp.pytype # "" THEN Returned(loads(resp.body))
              ELSE Returned(PyStr(Concat(resp.body)))
         ELSE Returned(PyNone)

\* DataClient.Send from getresponse() on: it returns nothing.
SendResult(resp) ==
    IF resp.status = 0 THEN Raised("BadStatusLine") ELSE Returned(PyNone)

(***************************************************************************)
(* The state.                                                              *)
(*   all_data_store, ip_data_store, data_recv, ip_cache: DataServer's      *)
(*     class attributes in the controller process;                         *)
(*   keep_running, server: the controller's DataServer instance; server    *)
(*     is the pid of the multiprocessing.Process it holds, 0 for None;     *)
(*   procs: the worker processes alive, each with the copy of the          *)
(*     controller's memory it was forked with; all of them accept on the   *)
(*     one listening socket of the HTTPServer made in __init__;            *)
(*   pc, call: where the controller is, "idle" between calls and "Recv"    *)
(*     inside Stop, waiting for the answer to its GET, with the call that  *)
(*     is running Stop;                                                    *)
(*   drain: the GET of Stop, "none", "sent" or "answered", and its answer; *)
(*   ev: the last call or request that ended and how it ended;             *)
(*   accepted: the value a worker last stored for a POST since the last    *)
(*     Stop that ran to its end, by key, whether DataClient.Send sent it   *)
(*     and whether the worker was the one the server held (history);       *)
(*   since: the keys stored under since the Stop in progress was called    *)
(*     (history);                                                          *)
(*   late: the keys of the POSTs answered with 200 after the GET of the    *)
(*     last Stop called was answered and before that Stop ended (history); *)
(*   nCalls, nRequests: the calls the controller and the requests clients  *)
(*     have made.                                                          *)
(***************************************************************************)
VARIABLES all_data_store, ip_data_store, data_recv, ip_cache, keep_running,
          server, procs, pc, call, drain, ev, accepted, since, late, nCalls,
          nRequests

(***************************************************************************)
(* The state of a run of the thread pool of net/http.py, ThreadedLatency   *)
(* or HttpScraper.GenUrlListThreaded.                                      *)
(*   target: which of the two is running, "" when none is;                 *)
(*   max_threads: its argument;                                            *)
(*   work: the list the workers pop from (url_list; the copy of            *)
(*     self.files);                                                        *)
(*   results: the list the workers append to (results; self.url_list);     *)
(*   threads: the worker threads alive, a bag of their states: where each  *)
(*     is and the url it has popped;                                       *)
(*   main: where the calling thread is;                                    *)
(*   ended: the threads it still has to start in this round;               *)
(*   popped: how many times each url was popped (history);                 *)
(*   others: the threads of the process alive besides the calling thread   *)
(*     and the workers of the pool, which threading.enumerate() lists too; *)
(*   lost: how many workers ended on finding the list empty (history);     *)
(*   self_files: the scraper's self.files, which GenUrlListThreaded copies *)
(*     to make the list its workers pop from; empty for ThreadedLatency,   *)
(*     whose workers pop from the list of the caller;                      *)
(*   requested: the hosts the workers have sent a request to (history).    *)
(***************************************************************************)
VARIABLES target, max_threads, work, results, threads, main, ended, popped,
          others, lost, self_files, requested

(***************************************************************************)
(* One call of HttpScraper.HttpCheck or of HttpLatency (net/http.py), and  *)
(* the commands of shell/bash.py's Host with the iperf and tcpdump         *)
(* wrappers that run them (netlib/net/iperf.py, netlib/net/tcpdump.py):    *)
(*   probe: the call, its arguments, what the server does, and its result; *)
(*   shell: the Host's processes and the wrappers' instance fields.        *)
(***************************************************************************)
VARIABLES probe, shell

dataVars == <<all_data_store, ip_data_store, data_recv, ip_cache, keep_running,
              server, procs, pc, call, drain, ev, accepted, since, late,
              nCalls, nRequests>>
poolVars == <<target, max_threads, work, results, threads, main, ended, popped,
              others, lost, self_files, requested>>
vars == <<dataVars, poolVars, probe, shell>>

\* What the actions of the data service, and those of the pool, leave alone.
offService == <<poolVars, probe, shell>>
offPool == <<dataVars, probe, shell>>

controllerStores == <<all_data_store, ip_data_store, data_recv, ip_cache>>
history == <<accepted, since, late>>

\* The controller begins a call; a client makes a request.
Calls == nCalls < MaxCalls /\ nCalls' = nCalls + 1 /\ UNCHANGED nRequests
Requests == nRequests < MaxRequests /\ nRequests' = nRequests + 1 /\ UNCHANGED nCalls

None == 0

NoRequest == Request("", "", "", "", <<>>)
Call(op, value, hostname, key) ==
    [op |-> op, value |-> value, hostname |-> hostname, key |-> key]
NoCall == Call("", PyNone, NoArg, NoArg)
Drain(state, resp) == [state |-> state, resp |-> resp]
NoDrain == Drain("none", NoResponse)

\* A call of the controller that ended; drained: Stop ran to its end in it;
\* terminated: it called self.server.terminate(); warned: it called
\* logging.warn.
CallEnded(op, result, drained) ==
    [kind |-> op, pid |-> None, address |-> "", req |-> NoRequest,
     resp |-> NoResponse, result |-> result, drained |-> drained,
     replaced |-> PyNone, terminated |-> FALSE, warned |-> FALSE]
\* A request that worker pid served for the client at address; replaced:
\* the value the worker held under the key of a POST before it (history).
Served(kind, pid, address, req, resp, result, replaced) ==
    [kind |-> kind, pid |-> pid, address |-> address, req |-> req,
     resp |-> resp, result |-> result, drained |-> FALSE,
     replaced |-> replaced, terminated |-> FALSE, warned |-> FALSE]

\* No pool is running.
NoPool ==
    /\ target = ""
    /\ max_threads = 0
    /\ work = <<>>
    /\ results = <<>>
    /\ threads = EmptyBag
    /\ main = "idle"
    /\ ended = 0
    /\ popped = <<>>
    /\ others = 0
    /\ lost = 0
    /\ self_files = <<>>
    /\ requested = {}

\* No call of HttpCheck or HttpLatency is under way, and no Host exists.
NoProbe == probe = <<>>
NoShell == shell = <<>>

\* The DataServer after __init__, no call made and no request served.
InitService ==
    /\ all_data_store = EmptyStore
    /\ ip_data_store = EmptyStore
    /\ data_recv = EmptyStore
    /\ ip_cache = <<>>
    /\ keep_running = FALSE
    /\ server = None
    /\ procs = <<>>
    /\ pc = "idle"
    /\ call = NoCall
    /\ drain = NoDrain
    /\ accepted = EmptyStore
    /\ since = {}
    /\ late = {}
    /\ nCalls = 0
    /\ nRequests = 0

Init ==
    /\ InitService
    /\ ev = CallEnded("__init__", Returned(PyNone), FALSE)
    /\ NoPool
    /\ NoProbe
    /\ NoShell

\* A worker process that starts with the stores of a fresh import of the
\* module instead of the memory of the controller.
ForkedWithFreshStores(all, ip, recv) ==
    [stores |-> NewStores(EmptyStore, EmptyStore, EmptyStore),
     keep_running |-> TRUE]

\* A worker process that starts with an empty received store.
ForkedWithoutReceived(all, ip, recv) ==
    [stores |-> NewStores(all, ip, EmptyStore), keep_running |-> TRUE]

\* The process multiprocessing.Process(target=self.__Start).start() forks:
\* it has the memory of the controller at that moment.
Forked(all, ip, recv) ==
    [stores |-> NewStores(all, ip, recv), keep_running |-> TRUE]
\* self.server.is_alive() after self.server.join(timeout=1).  The worker
\* runs 'while self.keep_running: self.httpserver.handle_request()' and is
\* alive unless that loop has ended; the keep_running it tests is the one
\* of its own memory, the copy made when it was forked.
is_alive(P, pid) == pid \in DOMAIN P /\ P[pid].keep_running

NewPid(P) == CHOOSE pid \in 1..MaxProcs :
                 /\ pid \notin DOMAIN P
                 /\ \A q \in 1..MaxProcs : q \notin DOMAIN P => pid <= q
Without(P, pid) == [q \in DOMAIN P \ {pid} |-> P[q]]

\* DataServer.Start: no test of self.server; the process it held before, if
\* any, stays alive without a handle.
Start ==
    /\ pc = "idle"
    /\ Calls
    /\ Cardinality(DOMAIN procs) < MaxProcs
    /\ keep_running' = TRUE
    /\ server' = NewPid(procs)
    /\ procs' = procs @@
                (NewPid(procs) :> Forked(all_data_store, ip_data_store, data_recv))
    /\ ev' = CallEnded("Start", Returned(PyNone), FALSE)
    /\ UNCHANGED <<controllerStores, pc, call, drain, history>>
    /\ UNCHANGED offService

\* DataServer.Stop up to tmp_client.Recv(GET_ALL_DATA): the GET is sent.
StopBegin(c) ==
    /\ keep_running' = FALSE
    /\ drain' = Drain("sent", NoResponse)
    /\ pc' = "Recv"
    /\ call' = c
    /\ since' = {}
    /\ late' = {}
    /\ UNCHANGED <<controllerStores, server, procs, ev, accepted>>

\* DataServer.Stop
Stop ==
    /\ pc = "idle"
    /\ Calls
    /\ IF server # None
       THEN StopBegin(Call("Stop", PyNone, NoArg, NoArg))
       ELSE /\ ev' = CallEnded("Stop", Returned(PyNone), FALSE)
            /\ UNCHANGED <<controllerStores, keep_running, server, procs, pc,
                           call, drain, history>>
    /\ UNCHANGED offService

\* DataServer.Restart
Restart ==
    /\ pc = "idle"
    /\ Calls
    /\ IF server # None
       THEN StopBegin(Call("Restart", PyNone, NoArg, NoArg))
       ELSE /\ Cardinality(DOMAIN procs) < MaxProcs
            /\ keep_running' = TRUE
            /\ server' = NewPid(procs)
            /\ procs' = procs @@
                 (NewPid(procs) :> Forked(all_data_store, ip_data_store, data_recv))
            /\ ev' = CallEnded("Restart", Returned(PyNone), FALSE)
            /\ UNCHANGED <<controllerStores, pc, call, drain, history>>
    /\ UNCHANGED offService

\* The statements of AddData between its Stop and its Start: the stores
\* they leave and the exception they raise, if any.
Added(all, ip, cache, exc) == [all |-> all, ip |-> ip, cache |-> cache, exc |-> exc]
AddDataBody(all, ip, cache, value, hostname, key) ==
    IF key # NoArg
    THEN IF hostname # NoArg /\ hostname # ""
         THEN Added(all, ip, cache, "AssertionError")
         ELSE Added(Put(all, key, value), ip, cache, "none")
    ELSE IF hostname # NoArg
         THEN IF hostname \in DOMAIN cache
              THEN Added(all, Put(ip, cache[hostname], value), cache, "none")
              ELSE IF gethostbyname(hostname) = "gaierror"
                   THEN Added(all, ip, cache, "gaierror")
                   ELSE Added(all, Put(ip, gethostbyname(hostname), value),
                              Put(cache, hostname, gethostbyname(hostname)),
                              "none")
         ELSE Added(all, ip, cache, "none")

\* DataServer.AddData
AddData(value, hostname, key) ==
    /\ pc = "idle"
    /\ Calls
    /\ IF server # None
       THEN StopBegin(Call("AddData", value, hostname, key))
       ELSE LET a == AddDataBody(all_data_store, ip_data_store, ip_cache,
                                 value, hostname, key)
            IN /\ all_data_store' = a.all
               /\ ip_data_store' = a.ip
               /\ ip_cache' = a.cache
               /\ ev' = CallEnded("AddData",
                                  IF a.exc = "none" THEN Returned(PyNone)
                                  ELSE Raised(a.exc), FALSE)
               /\ UNCHANGED <<data_recv, keep_running, server, procs, pc, call,
                              drain, history>>
    /\ UNCHANGED offService

\* DataServer.Results returning the received store of the worker the server
\* holds, as if the class attributes were shared with it.
ResultsOfWorker ==
    /\ pc = "idle"
    /\ Calls
    /\ ev' = [CallEnded("Results",
                       Returned(PyDict(IF server \in DOMAIN procs
                                       THEN procs[server].stores.data_recv
                                       ELSE data_recv)), FALSE)
                EXCEPT !.warned = server # None]
    /\ UNCHANGED <<controllerStores, keep_running, server, procs, pc, call,
                   drain, history>>
    /\ UNCHANGED offService

\* DataServer.Results
Results ==
    /\ pc = "idle"
    /\ Calls
    /\ ev' = [CallEnded("Results", Returned(PyDict(data_recv)), FALSE)
                EXCEPT !.warned = server # None]
    /\ UNCHANGED <<controllerStores, keep_running, server, procs, pc, call,
                   drain, history>>
    /\ UNCHANGED offService

(***************************************************************************)
(* Stop, from the GET it sends to its end, and the call that ran it.       *)
(***************************************************************************)
\* A worker process takes the GET of Stop off the listening socket and
\* answers it (DataHandler.do_GET for the client 127.0.0.1).
ServeDrain(pid) ==
    /\ pc = "Recv"
    /\ drain.state = "sent"
    /\ pid \in DOMAIN procs
    /\ drain' = Drain("answered",
                      do_GET(procs[pid].stores, LOCAL_LOOPBACK,
                             RecvRequest(GET_ALL_DATA)).resp)
    /\ UNCHANGED <<controllerStores, keep_running, server, procs, pc, call, ev,
                   history, nCalls, nRequests>>
    /\ UNCHANGED offService

\* The connection of tmp_client.Recv fails (refused, reset): httplib raises
\* socket.error, which nothing in Recv, Stop or their callers catches.
DrainRefused ==
    /\ pc = "Recv"
    /\ drain.state = "sent"
    /\ drain' = NoDrain
    /\ pc' = "idle"
    /\ call' = NoCall
    /\ ev' = CallEnded(call.op, Raised("socket.error"), FALSE)
    /\ UNCHANGED <<controllerStores, keep_running, server, procs, history,
                   nCalls, nRequests>>
    /\ UNCHANGED offService

\* DataServer.Stop without its merge loop.
MergeNothing(recv, recv_data) == recv

\* A merge in which the value the controller holds wins over the snapshot's.
MergeKeepingOld(recv, recv_data) ==
    [k \in DOMAIN recv \cup DOMAIN recv_data |->
        IF k \in DOMAIN recv THEN recv[k] ELSE recv_data[k]]

\* for key in recv_data: DataServer.data_recv[key] = recv_data[key]
Merge(recv, recv_data) ==
    [k \in DOMAIN recv \cup DOMAIN recv_data |->
        IF k \in DOMAIN recv_data THEN recv_data[k] ELSE recv[k]]

\* DataServer.Stop from the return of Recv on: join(timeout=1), terminate
\* if the worker is still alive, self.server = None, the merge; then what
\* the caller does after Stop.  The worker is gone after the join or after
\* terminate(); Stop makes no call of logging.  Iterating a recv_data that
\* is no dict raises TypeError, after self.server = None.
StopFinish ==
    /\ pc = "Recv"
    /\ drain.state = "answered"
    /\ LET recv_data == RecvResult(drain.resp).value
           alive == is_alive(procs, server)
           P == Without(procs, server)
           merged == Merge(data_recv, recv_data.items)
           a == IF call.op = "AddData"
                THEN AddDataBody(all_data_store, ip_data_store, ip_cache,
                                 call.value, call.hostname, call.key)
                ELSE Added(all_data_store, ip_data_store, ip_cache, "none")
           starts == call.op = "Restart" \/ (call.op = "AddData" /\ a.exc = "none")
       IN IF recv_data.type # "dict"
          THEN /\ server' = None
               /\ procs' = P
               /\ ev' = [CallEnded(call.op, Raised("TypeError"), FALSE)
                           EXCEPT !.terminated = alive]
               /\ UNCHANGED <<controllerStores, keep_running, accepted>>
          ELSE /\ data_recv' = merged
               /\ all_data_store' = a.all
               /\ ip_data_store' = a.ip
               /\ ip_cache' = a.cache
               /\ keep_running' = starts
               /\ server' = IF starts THEN NewPid(P) ELSE None
               /\ procs' = IF starts
                           THEN P @@ (NewPid(P) :> Forked(a.all, a.ip, merged))
                           ELSE P
               /\ ev' = [CallEnded(call.op,
                                   IF a.exc = "none" THEN Returned(PyNone)
                                   ELSE Raised(a.exc), TRUE)
                           EXCEPT !.terminated = alive]
               /\ accepted' = EmptyStore
    /\ drain' = NoDrain
    /\ pc' = "idle"
    /\ call' = NoCall
    /\ since' = {}
    /\ UNCHANGED <<late, nCalls, nRequests>>
    /\ UNCHANGED offService

(***************************************************************************)
(* Clients.  A request is served by whichever live worker process accepts  *)
(* the connection.                                                         *)
(***************************************************************************)
\* DataClient.Recv(key) from address, served by worker pid.
ClientGet(pid, address, key) ==
    /\ pid \in DOMAIN procs
    /\ Requests
    /\ LET h == do_GET(procs[pid].stores, address, RecvRequest(key))
       IN /\ procs' = [procs EXCEPT ![pid].stores = h.stores]
          /\ ev' = Served("GET", pid, address, RecvRequest(key), h.resp,
                          RecvResult(h.resp), PyNone)
    /\ UNCHANGED <<controllerStores, keep_running, server, pc, call, drain,
                   history>>
    /\ UNCHANGED offService

\* A POST from address, served by worker pid.
ClientPost(pid, address, key, req) ==
    /\ pid \in DOMAIN procs
    /\ Requests
    /\ LET old == procs[pid].stores.data_recv
           h == do_POST(procs[pid].stores, address, req)
           k == CompositeKey(key, address)
           stored == key # GET_ALL_DATA /\ k \in DOMAIN h.stores.data_recv
       IN /\ procs' = [procs EXCEPT ![pid].stores = h.stores]
          /\ ev' = Served("POST", pid, address, req, h.resp, SendResult(h.resp),
                          IF k \in DOMAIN old THEN old[k] ELSE PyNone)
          /\ accepted' = IF stored
                         THEN Put(accepted, k, [value |-> h.stores.data_recv[k],
                                                sent |-> req.pytype # "",
                                                held |-> pid = server])
                         ELSE accepted
          /\ since' = IF stored /\ pc = "Recv" THEN since \cup {k} ELSE since
          /\ late' = IF /\ stored
                        /\ h.resp.status = 200
                        /\ pc = "Recv"
                        /\ drain.state = "answered"
                     THEN late \cup {k} ELSE late
    /\ UNCHANGED <<controllerStores, keep_running, server, pc, call, drain>>
    /\ UNCHANGED offService

\* The calls of AddData the controller makes: by key, by hostname, and the
\* misuses (both, neither).
AddDataCalls ==
    {Call("AddData", PyDict("a" :> PyInt("1")), NoArg, "cfg"),
     Call("AddData", PyStr("hi"), NoArg, GET_ALL_DATA),
     Call("AddData", PyStr("hi"), "hostA", NoArg),
     Call("AddData", PyStr("hi"), "hostA", "cfg"),
     Call("AddData", PyStr("hi"), NoArg, NoArg)}

\* The requests clients make, as <<address, key>> for Recv and
\* <<address, key, request>> for a POST: DataClient.Send, and a POST of raw
\* bytes without the python-type header.
ClientGets ==
    {<<"10.0.0.5", k>> : k \in GetPaths} \cup {<<"10.0.0.6", "">>}
ClientPosts ==
    {<<"10.0.0.5", k, SendRequest(d, k)>> : d \in Payloads, k \in {"up"}}
    \cup {<<"10.0.0.5", GET_ALL_DATA, SendRequest(PyStr("hi"), GET_ALL_DATA)>>,
          <<"10.0.0.6", "up", Request("POST", "/up", "text/text", "", <<"h", "i">>)>>}

Next ==
    \/ Start
    \/ Stop
    \/ Restart
    \/ \E c \in AddDataCalls : AddData(c.value, c.hostname, c.key)
    \/ Results
    \/ \E pid \in 1..MaxProcs : ServeDrain(pid)
    \/ DrainRefused
    \/ StopFinish
    \/ \E pid \in 1..MaxProcs, g \in ClientGets : ClientGet(pid, g[1], g[2])
    \/ \E pid \in 1..MaxProcs, p \in ClientPosts :
          ClientPost(pid, p[1], p[2], p[3])

Spec == Init /\ [][Next]_vars

(***************************************************************************)
(* What the claims speak of.                                               *)
(***************************************************************************)
\* The stores of the controller and of every live worker.
ControllerStores == NewStores(all_data_store, ip_data_store, data_recv)
AllStores == {ControllerStores} \cup {procs[pid].stores : pid \in DOMAIN procs}

\* The addresses a lookup is made for and the paths it is made with.
LookupAddresses == Addresses \cup {LOCAL_LOOPBACK}
LookupPaths == GetPaths \cup {"up", "up_10.0.0.5"}

\* The values a POST hands to the store callback.
StoreValues == Payloads \cup {PyNone, PyStr(""), PyDict("b" :> PyInt("2"))}

\* The key and the path of the request of the last event.
EvPath == StripSlash(ev.req.path)
EvKey == CompositeKey(EvPath, ev.address)

\* The steps that serve a client's GET and a client's POST, and the step in
\* which Stop runs to its end; ev' then tells of that step.
GetStep == nRequests' = nRequests + 1 /\ ev'.kind = "GET"
PostStep == nRequests' = nRequests + 1 /\ ev'.kind = "POST"
StopEnds == pc = "Recv" /\ pc' = "idle" /\ ev'.drained

\* The lifecycle state of the server.  Starting lies inside Start, which
\* ends Running; Draining is Stop between its GET and its end.
Lifecycle ==
    IF pc = "Recv" THEN "Draining"
    ELSE IF server = None THEN "Stopped" ELSE "Running"

(***************************************************************************)
(* C2.  Path before address: in the stores of every process, for every     *)
(* path p other than the reserved key that is a key of the path store and  *)
(* every address a, in the address store or not, the lookup of (a, p)      *)
(* returns the path store's value for p; and a GET served for such a path  *)
(* hands that value to the client.                                         *)
(***************************************************************************)
C2_PathBeforeAddress ==
    /\ \A S \in AllStores : \A a \in LookupAddresses :
          \A p \in DOMAIN S.all_data_store \ {GET_ALL_DATA} :
             GetCallback(S, a, p) = S.all_data_store[p]
    /\ (/\ ev.kind = "GET"
        /\ ev.pid \in DOMAIN procs
        /\ EvPath # GET_ALL_DATA
        /\ EvPath \in DOMAIN procs[ev.pid].stores.all_data_store)
       => ev.result = Returned(procs[ev.pid].stores.all_data_store[EvPath])

\* A GET of a broadcast path was served for an address that has a different
\* value of its own in the address store, and the broadcast value returned.
C2_Witness ==
    /\ ev.kind = "GET"
    /\ ev.pid \in DOMAIN procs
    /\ EvPath = "cfg"
    /\ "cfg" \in DOMAIN procs[ev.pid].stores.all_data_store
    /\ ev.address \in DOMAIN procs[ev.pid].stores.ip_data_store
    /\ procs[ev.pid].stores.ip_data_store[ev.address]
          # procs[ev.pid].stores.all_data_store["cfg"]
    /\ ev.result = Returned(procs[ev.pid].stores.all_data_store["cfg"])

(***************************************************************************)
(* C3.  Address fallback: in the stores of every process, for every path   *)
(* p, the empty path included, that is neither the reserved key nor a key  *)
(* of the path store, the lookup of (a, p) returns the address store's     *)
(* value for a when a is a key of it and None otherwise.                   *)
(***************************************************************************)
C3_AddressFallback ==
    \A S \in AllStores : \A a \in LookupAddresses : \A p \in LookupPaths :
       (p # GET_ALL_DATA /\ p \notin DOMAIN S.all_data_store)
       => GetCallback(S, a, p) = IF a \in DOMAIN S.ip_data_store
                                 THEN S.ip_data_store[a] ELSE PyNone

\* A GET of the empty path was served for an address of the address store,
\* while another address has no value there, and returned that value.
C3_Witness ==
    /\ ev.kind = "GET"
    /\ ev.pid \in DOMAIN procs
    /\ EvPath = ""
    /\ ev.address \in DOMAIN procs[ev.pid].stores.ip_data_store
    /\ "10.0.0.6" \notin DOMAIN procs[ev.pid].stores.ip_data_store
    /\ "cfg" \in DOMAIN procs[ev.pid].stores.all_data_store
    /\ ev.resp.status = 200
    /\ ev.result = Returned(procs[ev.pid].stores.ip_data_store[ev.address])

(***************************************************************************)
(* C4.  The reserved key is never a key of the path store of any process,  *)
(* and the lookup of the reserved key returns the received store for every *)
(* address.                                                                *)
(***************************************************************************)
C4_ReservedKeyExcluded ==
    \A S \in AllStores :
       /\ GET_ALL_DATA \notin DOMAIN S.all_data_store
       /\ \A a \in LookupAddresses :
             GetCallback(S, a, GET_ALL_DATA) = PyDict(S.data_recv)

(***************************************************************************)
(* C5.  A store to the reserved key is rejected: in the stores of every    *)
(* process, for every address and value, the store callback returns None   *)
(* and leaves the three stores as they are; and a POST to the reserved key *)
(* is answered 404.                                                        *)
(***************************************************************************)
C5_ReservedKeyRejected ==
    /\ \A S \in AllStores : \A a \in LookupAddresses : \A x \in StoreValues :
          PostCallback(S, a, GET_ALL_DATA, x) = Outcome(S, PyNone, "none")
    /\ (ev.kind = "POST" /\ EvPath = GET_ALL_DATA) => ev.resp.status = 404

\* A POST to the reserved key was served by a worker that holds a value in
\* its received store, and answered 404.
C5_Witness ==
    /\ ev.kind = "POST"
    /\ EvPath = GET_ALL_DATA
    /\ ev.pid \in DOMAIN procs
    /\ procs[ev.pid].stores.data_recv # EmptyStore
    /\ ev.resp.status = 404

C7_StoreAlwaysConfirms ==
    (ev.kind = "POST" /\ EvPath # GET_ALL_DATA /\ ev.pid \in DOMAIN procs)
    => /\ EvKey \in DOMAIN procs[ev.pid].stores.data_recv
       /\ procs[ev.pid].stores.data_recv[EvKey] = PostedData(ev.req)
       /\ ev.resp.status = 200
       /\ HasLen(PostedData(ev.req))
          => ev.resp.body = <<Confirmation(EvKey, PostedData(ev.req))>>

(***************************************************************************)
(* C8.  Broadcast round trip: a Recv(p) that the worker the server holds   *)
(* serves, for a path p of the controller's path store (the values added   *)
(* before that worker was started), returns the value added for p, and     *)
(* serving it changes no store of any worker.                              *)
(***************************************************************************)
C8_BroadcastRoundTrip ==
    [][(/\ GetStep
        /\ ev'.pid = server
        /\ StripSlash(ev'.req.path) \in DOMAIN all_data_store)
       => /\ ev'.result = Returned(all_data_store[StripSlash(ev'.req.path)])
          /\ procs' = procs]_vars

(***************************************************************************)
(* C9.  Send round trip: a value v sent with Send(v, k), k other than the  *)
(* reserved key, from address a and served by the worker the server holds  *)
(* is stored by it under k_a as a value equal to v; and when Stop has run  *)
(* to its end, the controller's received store maps every key under which  *)
(* the worker the server held stored a value of Send before Stop was       *)
(* called to that value.                                                   *)
(***************************************************************************)
C9_SendRoundTrip ==
    [][/\ \A v \in Payloads :
             (/\ PostStep
              /\ ev'.pid = server
              /\ StripSlash(ev'.req.path) # GET_ALL_DATA
              /\ ev'.req = SendRequest(v, StripSlash(ev'.req.path)))
             => procs'[ev'.pid].stores.data_recv[
                   CompositeKey(StripSlash(ev'.req.path), ev'.address)] = v
       /\ StopEnds
          => \A k \in DOMAIN accepted \ since :
                (accepted[k].sent /\ accepted[k].held)
                => k \in DOMAIN data_recv' /\ data_recv'[k] = accepted[k].value]_vars

(***************************************************************************)
(* C10.  The lifecycle state changes only along Stopped -> Starting ->     *)
(* Running -> Draining -> Stopped: a step leaves it as it is, or takes     *)
(* Stopped to Running (Start, through Starting), Running to Draining,      *)
(* Draining to Stopped, or Draining to Running when Stop ran to its end    *)
(* and its caller started the server again; and a call of Start is made    *)
(* only when Stopped.                                                      *)
(***************************************************************************)
C10_LifecycleEdges ==
    [][/\ \/ Lifecycle' = Lifecycle
          \/ Lifecycle = "Stopped" /\ Lifecycle' = "Running"
          \/ Lifecycle = "Running" /\ Lifecycle' = "Draining"
          \/ Lifecycle = "Draining" /\ Lifecycle' = "Stopped"
          \/ Lifecycle = "Draining" /\ Lifecycle' = "Running" /\ ev'.drained
       /\ (nCalls' = nCalls + 1 /\ pc' = "idle" /\ ev'.kind = "Start")
          => Lifecycle = "Stopped"]_vars

(***************************************************************************)
(* C1.  Drain completeness: when Stop has run to its end, the controller's *)
(* received store maps every key under which the worker the server held    *)
(* stored the value of a POST before Stop was called to the last value     *)
(* stored for that key (a key stored under again while Stop was running    *)
(* may hold either).                                                       *)
(***************************************************************************)
C1_DrainCompleteness ==
    [][StopEnds
       => \A k \in DOMAIN accepted \ since :
             accepted[k].held
             => k \in DOMAIN data_recv' /\ data_recv'[k] = accepted[k].value]_vars

\* The same, for a Stop called while the worker the server holds is the
\* only worker alive: with no second Start on a running server the drain
\* is complete.
DrainCompleteOneWorker ==
    [][(StopEnds /\ DOMAIN procs = {server})
       => \A k \in DOMAIN accepted \ since :
             k \in DOMAIN data_recv' /\ data_recv'[k] = accepted[k].value]_vars

\* Stop ran to its end with one worker alive and merged a value that
\* worker had stored.
DrainCompleteOneWorkerWitness ==
    /\ ev.drained
    /\ DOMAIN procs = {}
    /\ data_recv # EmptyStore

\* The snapshot Stop received: what its Recv made of the answer to the GET.
Snapshot == RecvResult(drain.resp).value

(***************************************************************************)
(* C11.  Stop on a running server: the GET of the reserved key first, then *)
(* the join and the termination of the worker, then the merge.  A worker   *)
(* ceases to be alive, and the controller's received store changes, only   *)
(* once the GET has been answered, the worker being the one the server     *)
(* holds and the store becoming itself overwritten with the snapshot; and  *)
(* when Stop returns the worker the server held is not alive and the       *)
(* server is Stopped.                                                      *)
(***************************************************************************)
C11_StopOrder ==
    [][/\ \A pid \in DOMAIN procs \ DOMAIN procs' :
             pc = "Recv" /\ drain.state = "answered" /\ pid = server
       /\ data_recv' # data_recv
          => /\ pc = "Recv" /\ drain.state = "answered"
             /\ Snapshot.type = "dict"
             /\ DOMAIN data_recv' = DOMAIN data_recv \cup DOMAIN Snapshot.items
             /\ \A k \in DOMAIN data_recv' :
                   data_recv'[k] = IF k \in DOMAIN Snapshot.items
                                   THEN Snapshot.items[k] ELSE data_recv[k]
       /\ (pc = "Recv" /\ pc' = "idle" /\ call.op = "Stop"
           /\ ev'.result.exc = "none")
          => /\ server \notin DOMAIN procs'
             /\ server' = None
             /\ Lifecycle' = "Stopped"
             /\ DOMAIN Snapshot.items \subseteq DOMAIN data_recv'
             /\ \A k \in DOMAIN Snapshot.items :
                   data_recv'[k] = Snapshot.items[k]]_vars

\* Stop returned on a server that was running: the snapshot it merged has
\* a value, the worker is gone and the server is Stopped.
C11_Witness ==
    /\ ev.kind = "Stop"
    /\ ev.drained
    /\ ev.result.exc = "none"
    /\ "up_10.0.0.5" \in DOMAIN data_recv
    /\ server = None
    /\ DOMAIN procs = {}

(***************************************************************************)
(* C12.  When the GET of Stop fails (the worker is not reached, or the     *)
(* answer makes Recv return None), Stop skips the merge and still runs to  *)
(* its end: the controller's received store is as it was, no exception     *)
(* leaves the call, the worker the server held is not alive and the        *)
(* server holds no worker.                                                 *)
(***************************************************************************)
C12_DrainFailureSkipsMerge ==
    [][(/\ pc = "Recv"
        /\ pc' = "idle"
        /\ drain.state = "sent" \/ Snapshot.type # "dict")
       => /\ data_recv' = data_recv
          /\ ev'.result.exc = "none"
          /\ server' = None
          /\ server \notin DOMAIN procs']_vars

(***************************************************************************)
(* C13.  Restart.  Called on a running server it sends the GET of Stop,    *)
(* and when it returns Stop has run to its end, the snapshot is merged     *)
(* into the controller's received store; called on a stopped server it     *)
(* sends no GET and changes no store.  In both cases, when it returns the  *)
(* server is Running and the worker it holds is the only worker alive.     *)
(***************************************************************************)
C13_Restart ==
    [][/\ (nCalls' = nCalls + 1 /\ call'.op = "Restart")
          => Lifecycle = "Running" /\ drain'.state = "sent"
       /\ (nCalls' = nCalls + 1 /\ pc' = "idle" /\ ev'.kind = "Restart")
          => /\ Lifecycle = "Stopped"
             /\ drain' = drain
             /\ UNCHANGED controllerStores
             /\ Lifecycle' = "Running"
             /\ DOMAIN procs' = {server'}
       /\ (pc = "Recv" /\ pc' = "idle" /\ call.op = "Restart"
           /\ ev'.result.exc = "none")
          => /\ ev'.drained
             /\ DOMAIN Snapshot.items \subseteq DOMAIN data_recv'
             /\ \A k \in DOMAIN Snapshot.items :
                   data_recv'[k] = Snapshot.items[k]
             /\ Lifecycle' = "Running"
             /\ DOMAIN procs' = {server'}]_vars

\* The same for a Restart called while no worker is alive but the one the
\* server holds, if any: with no Start on a running server before it,
\* Restart leaves exactly one worker.
RestartOneWorker ==
    [][(/\ DOMAIN procs \subseteq {server}
        /\ \/ nCalls' = nCalls + 1 /\ pc' = "idle" /\ ev'.kind = "Restart"
           \/ /\ pc = "Recv" /\ pc' = "idle" /\ call.op = "Restart"
              /\ ev'.result.exc = "none")
       => /\ Lifecycle' = "Running"
          /\ DOMAIN procs' = {server'}
          /\ procs'[server'].stores = ControllerStores']_vars

\* Restart returned on a server that was running with one worker, which had
\* stored a value: the value is merged and one new worker is alive.
RestartOneWorkerWitness ==
    /\ ev.kind = "Restart"
    /\ ev.drained
    /\ "up_10.0.0.5" \in DOMAIN data_recv
    /\ DOMAIN procs = {server}

\* AddData called with both a key and a hostname, or with neither.
Misuse(c) == (c.key # NoArg /\ c.hostname # NoArg) \/ (c.key = NoArg /\ c.hostname = NoArg)

(***************************************************************************)
(* C14.  AddData with both a key and a hostname, or with neither, changes  *)
(* nothing: called on a stopped server it returns without an exception,    *)
(* the stores of the controller as they were and the server Stopped; and   *)
(* called on a running server it returns without an exception, the path    *)
(* store and the address store as they were, the received store holding    *)
(* what the Stop in it merged and nothing else new, and the server         *)
(* Running.                                                                *)
(***************************************************************************)
C14_MisuseIsNoOp ==
    [][/\ \A c \in AddDataCalls :
             (/\ Misuse(c)
              /\ server = None
              /\ AddData(c.value, c.hostname, c.key))
             => /\ ev'.result.exc = "none"
                /\ UNCHANGED controllerStores
                /\ Lifecycle' = "Stopped"
       /\ (/\ pc = "Recv" /\ pc' = "idle"
           /\ drain.state = "answered"
           /\ call.op = "AddData" /\ Misuse(call))
          => /\ ev'.result.exc = "none"
             /\ UNCHANGED <<all_data_store, ip_data_store, ip_cache>>
             /\ DOMAIN data_recv' = DOMAIN data_recv \cup DOMAIN Snapshot.items
             /\ Lifecycle' = "Running"]_vars

\* What the worker the server holds after the step serves for the value a
\* call of AddData added: under the key for any address, or to the address
\* of the hostname under the empty path.
ServesAdded(c) ==
    IF c.key # NoArg
    THEN \A a \in LookupAddresses :
            GetCallback(procs'[server'].stores, a, c.key) = c.value
    ELSE GetCallback(procs'[server'].stores, gethostbyname(c.hostname), "")
            = c.value

\* AddData, called on a running server with a key other than the reserved
\* one or with a hostname, returns.
AddDataReturns ==
    /\ pc = "Recv" /\ pc' = "idle"
    /\ call.op = "AddData"
    /\ ~Misuse(call)
    /\ call.key # GET_ALL_DATA
    /\ ev'.result.exc = "none"

(***************************************************************************)
(* C15.  AddData with a key or a hostname on a running server: when it     *)
(* returns, Stop has run to its end in it, the server is Running, the      *)
(* worker it holds serves the value added, the controller's received store *)
(* maps every key under which the worker held before stored the value of a *)
(* POST before the call to that value, and the new worker starts from that *)
(* received store, so that a later Stop hands the values back.             *)
(***************************************************************************)
C15_AddDataOnRunning ==
    [][AddDataReturns
       => /\ ev'.drained
          /\ Lifecycle' = "Running"
          /\ server' \in DOMAIN procs'
          /\ ServesAdded(call)
          /\ \A k \in DOMAIN accepted \ since :
                accepted[k].held
                => k \in DOMAIN data_recv' /\ data_recv'[k] = accepted[k].value
          /\ procs'[server'].stores.data_recv = data_recv']_vars

\* The same for an AddData called while the worker the server holds is the
\* only worker alive.
AddDataOneWorker ==
    [][(AddDataReturns /\ DOMAIN procs = {server})
       => /\ ev'.drained
          /\ Lifecycle' = "Running"
          /\ DOMAIN procs' = {server'}
          /\ ServesAdded(call)
          /\ \A k \in DOMAIN accepted \ since :
                k \in DOMAIN data_recv' /\ data_recv'[k] = accepted[k].value
          /\ procs'[server'].stores = ControllerStores']_vars

\* AddData returned on a server that was running with one worker, which
\* had stored a value: the value is merged, the new worker has it and the
\* value added.
AddDataOneWorkerWitness ==
    /\ ev.kind = "AddData"
    /\ ev.drained
    /\ ev.result.exc = "none"
    /\ DOMAIN procs = {server}
    /\ "up_10.0.0.5" \in DOMAIN procs[server].stores.data_recv
    /\ "cfg" \in DOMAIN procs[server].stores.all_data_store

\* The step is a call of Results.
ResultsStep == nCalls' = nCalls + 1 /\ pc' = "idle" /\ ev'.kind = "Results"

C17_WireStatus ==
    [][/\ GetStep
          => LET v == GetCallback(procs[ev'.pid].stores, ev'.address,
                                  StripSlash(ev'.req.path))
             IN IF v = PyNone
                THEN ev'.resp.status = 404
                ELSE /\ ev'.resp.status = 200
                     /\ ev'.resp.body = dumps(v)
                     /\ loads(ev'.resp.body) = v
       /\ PostStep
          => IF StripSlash(ev'.req.path) = GET_ALL_DATA
             THEN ev'.resp.status = 404
             ELSE /\ ev'.resp.status = 200
                  /\ ev'.resp.body
                        = <<Confirmation(CompositeKey(StripSlash(ev'.req.path),
                                                      ev'.address),
                                         PostedData(ev'.req))>>]_vars

\* The same for the GETs, and for the POSTs of a value that has a length.
WireStatusWithLen ==
    [][(GetStep \/ (PostStep /\ HasLen(PostedData(ev'.req))))
       => /\ ev'.resp.status \in {200, 404}
          /\ ev'.resp.status = 404
             <=> IF ev'.kind = "GET"
                 THEN GetCallback(procs[ev'.pid].stores, ev'.address,
                                  StripSlash(ev'.req.path)) = PyNone
                 ELSE StripSlash(ev'.req.path) = GET_ALL_DATA]_vars

(***************************************************************************)
(* DataClient.Recv against any HTTP server: the responses it may get, and  *)
(* a specification that draws one and lets Recv return.                    *)
(***************************************************************************)
Statuses == {200, 201, 204, 206, 207, 226, 299, 301, 404, 500}
Pickled == {PyStr("hi"), PyInt("7"), PyNone, PyDict(<<>>),
            PyDict("a" :> PyInt("1"))}
RawBodies == {<<>>, <<"h", "i">>, dumps(PyStr("hi"))}
Responses ==
    {Response(s, TypeHeader(v), dumps(v)) : s \in Statuses, v \in Pickled}
    \cup {Response(s, "", b) : s \in Statuses, b \in RawBodies}

\* Recv has sent its GET and the response is there.
Pending == Raised("pending")

InitRecv ==
    /\ InitService
    /\ \E r \in Responses, k \in GetPaths :
          ev = Served("GET", None, "10.0.0.5", RecvRequest(k), r, Pending, PyNone)
    /\ NoPool
    /\ NoProbe
    /\ NoShell

\* DataClient.Recv from getresponse() to its return.
RecvReturns ==
    /\ ev.result = Pending
    /\ ev' = [ev EXCEPT !.result = RecvResult(ev.resp)]
    /\ UNCHANGED <<controllerStores, keep_running, server, procs, pc, call,
                   drain, history, nCalls, nRequests>>
    /\ UNCHANGED offService

NextRecv == RecvReturns

SpecRecv == InitRecv /\ [][NextRecv]_vars

\* What Recv returns for a response whose status counts as success from lo
\* to hi: the value the body is the pickle of when the python-type header
\* is there, the body as it is otherwise; and None for every other status.
RecvReturnsBy(lo, hi) ==
    ev.result # Pending
    => /\ ev.result.exc = "none"
       /\ IF ev.resp.status >= lo /\ ev.resp.status <= hi
          THEN IF ev.resp.pytype # ""
               THEN \E v \in Pickled :
                       dumps(v) = ev.resp.body /\ ev.result.value = v
               ELSE ev.result.value = PyStr(Concat(ev.resp.body))
          ELSE ev.result.value = PyNone

Url(netloc, path) == [netloc |-> netloc, path |-> path]
NoUrl == Url("", "")

BANNED_NETLOCS ==
    {"ad.doubleclick.net", "fls.doubleclick.net", "b.scorecardresearch.com"}

\* The urls of the work lists, all different: one that is gone, one on a
\* banned host, one that has moved.
AllUrls ==
    <<Url("h1", "/a"), Url("h1", "/gone"), Url("h2", "/b"),
      Url("ad.doubleclick.net", "/x"), Url("h1", "/moved")>>

\* The candidates of self.files, all different: the same urls as strings,
\* and a list with the empty string, a banned host, a candidate relative
\* to the page, and urls with a query and an upper-case scheme.
File(f) == [file |-> f]
AllFiles ==
    <<File("http://h1/a"), File("http://h1/gone"), File("http://h2/b"),
      File("http://ad.doubleclick.net/x"), File("http://h1/moved")>>
OtherFiles ==
    <<File("http://fls.doubleclick.net/y"), File(""), File("b.png"),
      File("//h2/c?v=1"), File("HTTP://h1/gone")>>
\* A candidate the server redirects to a banned host, and one on it.
AdFiles == <<File("http://h1/ads"), File("http://ad.doubleclick.net/x")>>

\* The longest work list, the largest max_threads and the most threads
\* alive besides the calling thread when the pool is called.
MaxItems == 3
MaxThreads == 2
MaxOthers == 1

\* The most threads the model lets live at once.
MaxLive == MaxThreads + 2

Prefixes(list) ==
    {SubSeq(list, 1, k) : k \in 0..(IF MaxItems < Len(list)
                                    THEN MaxItems ELSE Len(list))}
WorkLists(t) ==
    IF t = "ThreadedLatency" THEN Prefixes(AllUrls)
    ELSE Prefixes(AllFiles) \cup Prefixes(OtherFiles) \cup Prefixes(AdFiles)

\* The status of the server's answer for a resource.
StatusOf(resource) ==
    CASE resource = "/gone" -> 404
      [] resource = "/moved" -> 301
      [] resource = "/ads" -> 302
      [] OTHER -> 200

\* A value that may be None, as getheader() returns: <<>> is None.
Some(v) == <<v>>
Missing == <<>>

(***************************************************************************)
(* urlparse.urlsplit, on the scheme, the netloc and the path: the scheme   *)
(* is what stands before the first ':' when that is made of scheme         *)
(* characters, lower-cased; the netloc is what follows a leading '//' up   *)
(* to the next '/', '?' or '#'; the path is the rest up to a '?' or '#'.   *)
(***************************************************************************)
Char(s, i) == SubSeq(s, i, i)

UpperCase == "ABCDEFGHIJKLMNOPQRSTUVWXYZ"
LowerCase == "abcdefghijklmnopqrstuvwxyz"
scheme_chars ==
    {Char(UpperCase, i) : i \in 1..Len(UpperCase)}
    \cup {Char(LowerCase, i) : i \in 1..Len(LowerCase)}
    \cup {Char("0123456789+-.", i) : i \in 1..13}

RECURSIVE lower(_)
lower(s) ==
    IF s = "" THEN ""
    ELSE LET c == Char(s, 1)
             up == {i \in 1..Len(UpperCase) : Char(UpperCase, i) = c}
         IN (IF up = {} THEN c ELSE Char(LowerCase, CHOOSE i \in up : TRUE))
            \o lower(SubSeq(s, 2, Len(s)))

\* The first index from i on where s has one of the characters of cs, and
\* Len(s) + 1 when it has none.
RECURSIVE Find(_, _, _)
Find(s, cs, i) ==
    IF i > Len(s) \/ Char(s, i) \in cs THEN i ELSE Find(s, cs, i + 1)

startswith(s, prefix) ==
    Len(s) >= Len(prefix) /\ SubSeq(s, 1, Len(prefix)) = prefix

urlsplit(url) ==
    LET i == Find(url, {":"}, 1)
        hasScheme == /\ i > 1
                     /\ i <= Len(url)
                     /\ \A k \in 1..(i - 1) : Char(url, k) \in scheme_chars
        rest == IF hasScheme THEN SubSeq(url, i + 1, Len(url)) ELSE url
        hasNetloc == startswith(rest, "//")
        delim == Find(rest, {"/", "?", "#"}, 3)
        after == IF hasNetloc THEN SubSeq(rest, delim, Len(rest)) ELSE rest
        noFragment == SubSeq(after, 1, Find(after, {"#"}, 1) - 1)
    IN [scheme |-> IF hasScheme THEN lower(SubSeq(url, 1, i - 1)) ELSE "",
        netloc |-> IF hasNetloc THEN SubSeq(rest, 3, delim - 1) ELSE "",
        path |-> SubSeq(noFragment, 1, Find(noFragment, {"?"}, 1) - 1)]

(***************************************************************************)
(* What the server does with one request: fails is "timeout" for a         *)
(* socket.timeout, "error" for any other exception of the connection, and  *)
(* "" for an answer, which has a status, the Location and Content-Length   *)
(* headers, and a body of size bytes read after wall seconds, cpu of them  *)
(* on the processor.                                                       *)
(***************************************************************************)
Answer(fails, status, location, length, size, wall, cpu) ==
    [fails |-> fails, status |-> status, location |-> location,
     length |-> length, size |-> size, wall |-> wall, cpu |-> cpu]

\* What the workers append: the tuple of HttpCheck, the URLRecord of
\* HttpLatency, or False; Absent is HttpCheck's None.
Tuple(netloc, path, scheme, length) ==
    [kind |-> "tuple", netloc |-> netloc, path |-> path, scheme |-> scheme,
     length |-> length]
URLRecord(netloc, path, scheme, size, resp_time, err_time) ==
    [kind |-> "URLRecord", netloc |-> netloc, path |-> path,
     scheme |-> scheme, size |-> size, resp_time |-> resp_time,
     err_time |-> err_time]
Absent == [kind |-> "None"]
False == [kind |-> "False"]

\* The HttpScraper a call of HttpCheck is made on: made says whether
\* __init__ has assigned self.netloc and self.scheme.
Scraper(made, netloc, scheme) ==
    [made |-> made, netloc |-> netloc, scheme |-> scheme]

\* The host, the scheme and the resource HttpCheck asks the server for.
HostOf(self, host) == IF host = "" THEN self.netloc ELSE host
SchemeOf(self, scheme) == IF scheme = "" THEN self.scheme ELSE scheme
Slashed(resource) ==
    IF startswith(resource, "/") THEN resource ELSE "/" \o resource

\* HttpScraper.HttpCheck returning the original target for every answer.
HttpCheckAnyStatus(self, host, resource, scheme, answer) ==
    Returned(Tuple(HostOf(self, host), Slashed(resource),
                   SchemeOf(self, scheme), answer.length))

\* HttpScraper.HttpCheck keeping the original target on a redirect.
HttpCheckNotFollowing(self, host, resource, scheme, answer) ==
    IF (host = "" \/ scheme = "") /\ ~self.made
    THEN Raised("AttributeError")
    ELSE IF answer.fails = "" /\ answer.status >= 200 /\ answer.status <= 307
         THEN Returned(Tuple(HostOf(self, host), Slashed(resource),
                             SchemeOf(self, scheme), answer.length))
         ELSE Returned(Absent)

\* HttpScraper.HttpCheck
HttpCheck(self, host, resource, scheme, answer) ==
    IF (host = "" \/ scheme = "") /\ ~self.made
    THEN Raised("AttributeError")
    ELSE IF answer.fails # ""
         THEN Returned(Absent)
         ELSE IF answer.status >= 200 /\ answer.status <= 206
              THEN Returned(Tuple(HostOf(self, host), Slashed(resource),
                                  SchemeOf(self, scheme), answer.length))
              ELSE IF answer.status >= 300 /\ answer.status <= 307
                   THEN IF answer.location = Missing
                        THEN Raised("AttributeError")
                        ELSE LET tmp == urlsplit(answer.location[1])
                             IN Returned(Tuple(tmp.netloc, tmp.path,
                                               tmp.scheme, answer.length))
                   ELSE Returned(Absent)

\* HttpLatency taking every 2xx and 3xx status for success.
HttpLatencyAny2xx3xx(host, resource, scheme, answer) ==
    IF answer.fails = "" /\ answer.status >= 200 /\ answer.status <= 399
    THEN Returned(URLRecord(host, resource, scheme, answer.size,
                            answer.wall, answer.cpu))
    ELSE Returned(False)

\* HttpLatency
HttpLatency(host, resource, scheme, answer) ==
    IF answer.fails # ""
    THEN Returned(False)
    ELSE IF answer.status >= 200 /\ answer.status <= 206
         THEN Returned(URLRecord(host, resource, scheme, answer.size,
                                 answer.wall, answer.cpu))
         ELSE IF answer.status >= 300 /\ answer.status <= 307
              THEN Returned(URLRecord(host, resource, scheme, answer.size,
                                      answer.wall, answer.cpu))
              ELSE Returned(False)

\* The page the pool's HttpScraper was made for, and its entry in
\* self.url_list.
Page == Scraper(TRUE, "www.python.org", "http")
RootEntry == Tuple("www.python.org", "/", "http", Some("1"))

\* What the servers of the pool's urls answer: every resource is one byte
\* long and read in a second, the one that has moved is on the www. host
\* and the one that is found elsewhere (302) on a banned host.
AnswerOf(host, resource) ==
    Answer("", StatusOf(resource),
           IF StatusOf(resource) = 301
           THEN Some("http://www." \o host \o resource)
           ELSE IF StatusOf(resource) = 302
                THEN Some("http://ad.doubleclick.net/x") ELSE Missing,
           Some("1"), 1, 1, 0)

\* The result of the scraper's worker for a candidate of self.files, and of
\* ThreadedLatency's for a url of url_list.
CheckOf(file) ==
    LET tmp == urlsplit(file)
    IN HttpCheck(Page, tmp.netloc, tmp.path, tmp.scheme,
                 AnswerOf(HostOf(Page, tmp.netloc), Slashed(tmp.path)))
LatencyOf(url) ==
    HttpLatency(url.netloc, url.path, "http", AnswerOf(url.netloc, url.path))

\* A worker thread: where it is ("if", "pop", "probe") and the url it has.
Thread(at, url) == [at |-> at, url |-> url]
One(t) == SetToBag({t})
Live == BagCardinality(threads)

Last(list) == list[Len(list)]
Front(list) == SubSeq(list, 1, Len(list) - 1)
Range(list) == {list[i] : i \in 1..Len(list)}

InitPool ==
    /\ InitService
    /\ ev = CallEnded("__init__", Returned(PyNone), FALSE)
    /\ target \in {"ThreadedLatency", "GenUrlListThreaded"}
    /\ max_threads \in 0..MaxThreads
    /\ work \in WorkLists(target)
    /\ self_files = IF target = "GenUrlListThreaded" THEN work ELSE <<>>
    /\ requested = {}
    /\ results = IF target = "GenUrlListThreaded" THEN <<RootEntry>> ELSE <<>>
    /\ threads = EmptyBag
    /\ main = "while"
    /\ ended = 0
    /\ popped = [u \in Range(work) |-> 0]
    /\ others \in 0..MaxOthers
    /\ lost = 0
    /\ NoProbe
    /\ NoShell

\* while url_list:
PoolWhile ==
    /\ main = "while"
    /\ main' = IF work # <<>> THEN "enumerate" ELSE "join"
    /\ UNCHANGED <<self_files, requested>>
    /\ UNCHANGED <<target, others, lost, max_threads, work, results, threads,
                   ended, popped>>
    /\ UNCHANGED offPool

\* ended = max_threads, the threads alive not counted.
PoolEnumerateNotCounting ==
    /\ main = "enumerate"
    /\ ended' = max_threads
    /\ main' = "start"
    /\ UNCHANGED <<self_files, requested>>
    /\ UNCHANGED <<target, others, lost, max_threads, work, results,
                   threads, popped>>
    /\ UNCHANGED offPool

\* ended = (max_threads + 1) - len(threading.enumerate()): the threads
\* alive are the workers, the calling thread and the others.
PoolEnumerate ==
    /\ main = "enumerate"
    /\ ended' = (max_threads + 1) - (Live + 1 + others)
    /\ main' = "start"
    /\ UNCHANGED <<self_files, requested>>
    /\ UNCHANGED <<target, others, lost, max_threads, work, results,
                   threads, popped>>
    /\ UNCHANGED offPool

\* for i in range(ended): threading.Thread(...).start()
PoolStartThread ==
    /\ main = "start"
    /\ ended > 0
    /\ Live < MaxLive
    /\ threads' = threads (+) One(Thread("if", NoUrl))
    /\ ended' = ended - 1
    /\ UNCHANGED <<self_files, requested>>
    /\ UNCHANGED <<target, others, lost, max_threads, work, results,
                   main, popped>>
    /\ UNCHANGED offPool

\* The round is over: time.sleep(0.1), and the loop again.
PoolSleep ==
    /\ main = "start"
    /\ ended <= 0
    /\ main' = "while"
    /\ UNCHANGED <<self_files, requested>>
    /\ UNCHANGED <<target, others, lost, max_threads, work, results, threads,
                   ended, popped>>
    /\ UNCHANGED offPool

\* for t in threading.enumerate(): t.join(), and the return of the list:
\* every thread but the calling one is joined, the others included.
PoolJoin ==
    /\ main = "join"
    /\ threads = EmptyBag
    /\ others = 0
    /\ main' = "returned"
    /\ UNCHANGED <<self_files, requested>>
    /\ UNCHANGED <<target, others, lost, max_threads, work, results, threads,
                   ended, popped>>
    /\ UNCHANGED offPool

\* The worker's 'if url_list:'; it ends when the list is empty.
WorkerIf(t) ==
    /\ t.at = "if"
    /\ BagIn(t, threads)
    /\ threads' = IF work # <<>>
                  THEN (threads (-) One(t)) (+) One(Thread("pop", NoUrl))
                  ELSE threads (-) One(t)
    /\ lost' = IF work = <<>> THEN lost + 1 ELSE lost
    /\ UNCHANGED <<self_files, requested>>
    /\ UNCHANGED <<target, others, max_threads, work, results, main,
                   ended, popped>>
    /\ UNCHANGED offPool

\* url_list.pop() reading the last url and leaving it on the list.
WorkerPopLeaving(t) ==
    /\ t.at = "pop"
    /\ BagIn(t, threads)
    /\ IF work = <<>>
       THEN /\ threads' = threads (-) One(t)
            /\ UNCHANGED popped
       ELSE /\ threads' = (threads (-) One(t)) (+) One(Thread("probe", Last(work)))
            /\ popped' = [popped EXCEPT ![Last(work)] = @ + 1]
    /\ lost' = IF work = <<>> THEN lost + 1 ELSE lost
    /\ UNCHANGED <<self_files, requested>>
    /\ UNCHANGED <<target, others, max_threads, work, results, main, ended>>
    /\ UNCHANGED offPool

\* url_list.pop() with the IndexError of an empty list entered in the
\* results as a failure.
WorkerPopRecordingLoss(t) ==
    /\ t.at = "pop"
    /\ BagIn(t, threads)
    /\ IF work = <<>>
       THEN /\ threads' = threads (-) One(t)
            /\ results' = Append(results, False)
            /\ UNCHANGED <<work, popped>>
       ELSE /\ threads' = (threads (-) One(t)) (+) One(Thread("probe", Last(work)))
            /\ work' = Front(work)
            /\ popped' = [popped EXCEPT ![Last(work)] = @ + 1]
            /\ UNCHANGED results
    /\ lost' = IF work = <<>> THEN lost + 1 ELSE lost
    /\ UNCHANGED <<self_files, requested>>
    /\ UNCHANGED <<target, others, max_threads, main, ended>>
    /\ UNCHANGED offPool

\* The scraper's worker popping from self.files itself, as if
\* GenUrlListThreaded made no copy of it.
WorkerPopFromFiles(t) ==
    /\ t.at = "pop"
    /\ BagIn(t, threads)
    /\ IF work = <<>>
       THEN /\ threads' = threads (-) One(t)
            /\ UNCHANGED <<work, popped, self_files>>
       ELSE /\ threads' = (threads (-) One(t)) (+) One(Thread("probe", Last(work)))
            /\ work' = Front(work)
            /\ self_files' = IF self_files # <<>> THEN Front(self_files)
                           ELSE self_files
            /\ popped' = [popped EXCEPT ![Last(work)] = @ + 1]
    /\ lost' = IF work = <<>> THEN lost + 1 ELSE lost
    /\ UNCHANGED requested
    /\ UNCHANGED <<target, others, max_threads, results, main, ended>>
    /\ UNCHANGED offPool

\* url_list.pop(): the last url of the list, in one step; IndexError on an
\* empty list, which ends the worker.
WorkerPop(t) ==
    /\ t.at = "pop"
    /\ BagIn(t, threads)
    /\ IF work = <<>>
       THEN /\ threads' = threads (-) One(t)
            /\ UNCHANGED <<work, popped>>
       ELSE /\ threads' = (threads (-) One(t)) (+) One(Thread("probe", Last(work)))
            /\ work' = Front(work)
            /\ popped' = [popped EXCEPT ![Last(work)] = @ + 1]
    /\ lost' = IF work = <<>> THEN lost + 1 ELSE lost
    /\ UNCHANGED <<self_files, requested>>
    /\ UNCHANGED <<target, others, max_threads, results, main, ended>>
    /\ UNCHANGED offPool

\* What the scraper's worker appends for the candidate it popped: the
\* tuple of HttpCheck when the host is not banned and there is one; a
\* worker HttpCheck raises in ends without an append.
WorkerAppends(file) ==
    IF /\ urlsplit(file).netloc \notin BANNED_NETLOCS
       /\ CheckOf(file).exc = "none"
       /\ CheckOf(file).value # Absent
    THEN <<CheckOf(file).value>>
    ELSE <<>>

\* The same for every candidate of the work lists.
AppendedFor ==
    [url \in Range(AllFiles) \cup Range(OtherFiles) \cup Range(AdFiles) |->
        WorkerAppends(url.file)]

\* The hosts the scraper's worker sends a request to for the candidate it
\* popped: none when the host is banned, else the host HttpCheck connects
\* to.
WorkerRequests(file) ==
    IF urlsplit(file).netloc \notin BANNED_NETLOCS
    THEN {HostOf(Page, urlsplit(file).netloc)}
    ELSE {}
RequestedFor ==
    [url \in Range(AllFiles) \cup Range(OtherFiles) \cup Range(AdFiles) |->
        WorkerRequests(url.file)]

\* The hosts the worker sends a request to for the url it popped:
\* ThreadedLatency's worker to the host of the url.
Requested(url) ==
    IF target = "ThreadedLatency" THEN {url.netloc} ELSE RequestedFor[url]

\* What the worker appends for the url it popped: ThreadedLatency's worker
\* whatever HttpLatency returns.
Appended(url) ==
    IF target = "ThreadedLatency" THEN <<LatencyOf(url).value>>
    ELSE AppendedFor[url]

\* The probe of the url and the append; the worker ends.
WorkerProbe(t) ==
    /\ t.at = "probe"
    /\ BagIn(t, threads)
    /\ results' = results \o Appended(t.url)
    /\ requested' = requested \cup Requested(t.url)
    /\ threads' = threads (-) One(t)
    /\ UNCHANGED self_files
    /\ UNCHANGED <<target, others, lost, max_threads, work, main,
                   ended, popped>>
    /\ UNCHANGED offPool

\* A thread that is none of the pool's ends.
OtherEnds ==
    /\ target # ""
    /\ others > 0
    /\ others' = others - 1
    /\ UNCHANGED <<self_files, requested>>
    /\ UNCHANGED <<target, max_threads, work, results, threads, main, ended,
                   popped, lost>>
    /\ UNCHANGED offPool

ThreadStates ==
    {Thread("if", NoUrl), Thread("pop", NoUrl)}
    \cup {Thread("probe", u) :
             u \in Range(AllUrls) \cup Range(AllFiles) \cup Range(OtherFiles)
                   \cup Range(AdFiles)}

NextPool ==
    \/ PoolWhile
    \/ PoolEnumerate
    \/ PoolStartThread
    \/ PoolSleep
    \/ PoolJoin
    \/ \E t \in ThreadStates : WorkerIf(t)
    \/ \E t \in ThreadStates : WorkerPop(t)
    \/ \E t \in ThreadStates : WorkerProbe(t)
    \/ OtherEnds

SpecPool == InitPool /\ [][NextPool]_vars

\* The scheduler lets every thread of the pool that can take a step take
\* one: the calling thread sleeps in each round, and every probe ends.  A
\* thread that is none of the pool's need never end.
SpecPoolFair ==
    /\ SpecPool
    /\ WF_vars(PoolWhile)
    /\ WF_vars(PoolEnumerate)
    /\ WF_vars(PoolStartThread)
    /\ WF_vars(PoolSleep)
    /\ WF_vars(PoolJoin)
    /\ WF_vars(\E t \in ThreadStates : WorkerIf(t))
    /\ WF_vars(\E t \in ThreadStates : WorkerPop(t))
    /\ WF_vars(\E t \in ThreadStates : WorkerProbe(t))

\* How many entries of a list equal x.
Count(list, x) == Cardinality({i \in 1..Len(list) : list[i] = x})

\* The urls of the work list of this run, and those that pass validation:
\* the pool appends a result for them that is not False.
Items == DOMAIN popped

\* The results of the pool's workers: the scraper's url_list without the
\* entry __init__ left in it.
Found == IF target = "GenUrlListThreaded" THEN Tail(results) ELSE results
Passes(u) == Appended(u) # <<>> /\ Appended(u) # <<False>>

(***************************************************************************)
(* C19.  Pool completeness and no duplication.  For a work list of         *)
(* distinct urls and any max_threads >= 1, smaller than the length of the  *)
(* list or not: no url is popped more than once, and each is on the list,  *)
(* or popped and in the hands of one worker, or popped and processed;      *)
(* when the pool returns, the list is empty, every url has been popped     *)
(* exactly once, and the results hold exactly one entry for every url that *)
(* passes validation, the one its probe returns.                           *)
(***************************************************************************)
C19_PoolCompleteNoDuplicate ==
    /\ \A u \in Items :
          /\ popped[u] <= 1
          /\ Count(work, u) + popped[u] = 1
          /\ CopiesIn(Thread("probe", u), threads) <= popped[u]
    /\ main = "returned"
       => /\ work = <<>>
          /\ \A u \in Items :
                /\ popped[u] = 1
                /\ Passes(u) => Count(Found, Appended(u)[1]) = 1
          /\ Len(Found) = Cardinality({u \in Items : Appended(u) # <<>>})

\* A pool of fewer threads than urls returned: one result for each url
\* that passed, none for the one that is gone.
C19_Witness ==
    /\ main = "returned"
    /\ target = "GenUrlListThreaded"
    /\ max_threads < Cardinality(Items)
    /\ Cardinality(Items) = MaxItems
    /\ Count(Found, Tuple("h1", "/a", "http", Some("1"))) = 1
    /\ Count(Found, Tuple("h2", "/b", "http", Some("1"))) = 1
    /\ Len(Found) = 2

(***************************************************************************)
(* C20.  Concurrency cap: in a run of the pool with max_threads N, at no   *)
(* moment are more than N worker threads alive, and the threads alive plus *)
(* those the calling thread still has to start in its round are never more *)
(* than N.                                                                 *)
(***************************************************************************)
C20_ConcurrencyCap ==
    target # ""
    => /\ Live <= max_threads
       /\ main = "start" => Live + ended <= max_threads

\* max_threads workers are alive, one of them probing, while the list
\* still has urls.
C20_Witness ==
    /\ max_threads = MaxThreads
    /\ Live = max_threads
    /\ work # <<>>
    /\ \E u \in Items : BagIn(Thread("probe", u), threads)

(***************************************************************************)
(* C21.  Pool termination.  For every work list and max_threads >= 1,      *)
(* every probe ending, the pool returns in the end; and when it has        *)
(* returned the work list is empty, no worker is alive, every url popped   *)
(* has been processed and the results hold what its probe appended.        *)
(***************************************************************************)
C21_PoolTerminates ==
    /\ max_threads >= 1 => <>(main = "returned")
    /\ [](main = "returned"
          => /\ work = <<>>
             /\ threads = EmptyBag
             /\ \A u \in Items :
                   (popped[u] > 0 /\ Appended(u) # <<>>)
                   => Count(results, Appended(u)[1]) >= 1)

\* The same for a pool called with max_threads >= 1 while no thread is
\* alive but the calling one, or once the last of the other threads has
\* ended.
PoolTerminatesAlone ==
    /\ (target # "" /\ others = 0 /\ max_threads >= 1) ~> (main = "returned")
    /\ [](main = "returned"
          => /\ work = <<>>
             /\ threads = EmptyBag
             /\ \A u \in Items :
                   (popped[u] > 0 /\ Appended(u) # <<>>)
                   => Count(results, Appended(u)[1]) >= 1)

\* A worker that has not popped a url takes a step while the list is empty.
LosesRace ==
    /\ work = <<>>
    /\ \E t \in {Thread("if", NoUrl), Thread("pop", NoUrl)} :
          /\ BagIn(t, threads)
          /\ CopiesIn(t, threads') = CopiesIn(t, threads) - 1

(***************************************************************************)
(* C30.  RaceLoss: a worker that finds the list empty, at its 'if' or at   *)
(* its pop after another worker took the last url, ends and nothing else   *)
(* happens: the results, the list and the count of pops are as they were,  *)
(* every other worker is where it was with the url it had, and the calling *)
(* thread is where it was.                                                 *)
(***************************************************************************)
C30_RaceLoss ==
    [][LosesRace
       => /\ UNCHANGED <<results, work, popped, main, ended, max_threads>>
          /\ lost' = lost + 1
          /\ BagCardinality(threads') = BagCardinality(threads) - 1
          /\ \A t \in ThreadStates :
                CopiesIn(t, threads') >= CopiesIn(t, threads) - 1
          /\ \A u \in DOMAIN popped :
                CopiesIn(Thread("probe", u), threads')
                   = CopiesIn(Thread("probe", u), threads)]_vars

\* Two workers were started for a list of one url: one has found the list
\* empty and ended, while the one that took the url is still probing it.
C30_Witness ==
    /\ work = <<>>
    /\ Cardinality(Items) = 1
    /\ lost = 1
    /\ \E u \in Items : threads = One(Thread("probe", u))
    /\ results = <<>>
    /\ main = "start"
    /\ ended = 0

(***************************************************************************)
(* C26.  The list ThreadedLatency returns holds one URLRecord for every    *)
(* url whose probe succeeded and nothing for a url whose probe failed:     *)
(* every element of it is a URLRecord, and it is as long as there are urls *)
(* whose probe succeeded.                                                  *)
(***************************************************************************)
C26_OnlyProbeResults ==
    (target = "ThreadedLatency" /\ main = "returned")
    => /\ \A i \in 1..Len(results) : results[i].kind = "URLRecord"
       /\ \A u \in Items :
             LatencyOf(u).value # False
             => Count(results, LatencyOf(u).value) = 1
       /\ Len(results)
          = Cardinality({u \in Items : LatencyOf(u).value # False})

(***************************************************************************)
(* Single calls of HttpScraper.HttpCheck and of HttpLatency.  The call is  *)
(* made on an HttpScraper whose __init__ has finished or, as __init__      *)
(* itself does, on one that has no netloc and no scheme yet; the host, the *)
(* resource and the scheme are given or empty; the server fails, or        *)
(* answers with any status, with or without the headers.                   *)
(***************************************************************************)
MaxBytes == 2

Selves == {Page, Scraper(FALSE, "", "")}
Hosts == {"h1", ""}
Resources == {"/r1", "r1", ""}
Schemes == {"http", "https", ""}
ProbeStatuses ==
    {100, 200, 204, 206, 207, 299, 300, 301, 304, 307, 308, 399, 400, 404,
     500, 503}
Locations ==
    {Missing, Some("http://h2/r2"), Some("HTTPS://h2:8080/r2?x=1#top"),
     Some("/r2")}
Failures == {Answer(f, 0, Missing, Missing, 0, 0, 0) : f \in {"timeout", "error"}}
HeadAnswers ==
    {Answer("", st, loc, len, 0, 0, 0) :
        st \in ProbeStatuses, loc \in Locations, len \in {Missing, Some("120")}}
    \cup Failures
GetAnswers ==
    {Answer("", st, Missing, Missing, size, 2, 1) :
        st \in ProbeStatuses, size \in 0..MaxBytes}
    \cup Failures

ProbeCall(fn, self, host, resource, scheme, answer) ==
    [fn |-> fn, self |-> self, host |-> host, resource |-> resource,
     scheme |-> scheme, answer |-> answer, result |-> Pending]

InitProbe ==
    /\ InitService
    /\ ev = CallEnded("__init__", Returned(PyNone), FALSE)
    /\ NoPool
    /\ NoShell
    /\ \/ \E self \in Selves, host \in Hosts, resource \in Resources,
            scheme \in Schemes, answer \in HeadAnswers :
            probe = ProbeCall("HttpCheck", self, host, resource, scheme,
                              answer)
       \/ \E resource \in Resources \ {""}, scheme \in Schemes \ {""},
            answer \in GetAnswers :
            probe = ProbeCall("HttpLatency", Scraper(FALSE, "", ""), "h1",
                              resource, scheme, answer)

\* HttpScraper.HttpCheck from its first statement to its return.
HttpCheckReturns ==
    /\ probe.fn = "HttpCheck"
    /\ probe.result = Pending
    /\ probe' = [probe EXCEPT !.result =
                    HttpCheck(probe.self, probe.host, probe.resource,
                              probe.scheme, probe.answer)]
    /\ UNCHANGED <<dataVars, poolVars, shell>>

\* HttpLatency from its first statement to its return.
HttpLatencyReturns ==
    /\ probe.fn = "HttpLatency"
    /\ probe.result = Pending
    /\ probe' = [probe EXCEPT !.result =
                    HttpLatency(probe.host, probe.resource, probe.scheme,
                                probe.answer)]
    /\ UNCHANGED <<dataVars, poolVars, shell>>

NextProbe == HttpCheckReturns \/ HttpLatencyReturns

SpecProbe == InitProbe /\ [][NextProbe]_vars

\* A call of HttpCheck has ended; the call had a host and a scheme to use,
\* its own or the scraper's; the server answered with a status from lo to
\* hi.
Checked == probe.fn = "HttpCheck" /\ probe.result # Pending
Usable == (probe.host # "" /\ probe.scheme # "") \/ probe.self.made
Answered(lo, hi) ==
    /\ probe.answer.fails = ""
    /\ probe.answer.status >= lo
    /\ probe.answer.status <= hi

(***************************************************************************)
(* C22.  HttpCheck classification.  A call of HttpCheck that has a host    *)
(* and a scheme to use returns, for a HEAD answer with a status from 200   *)
(* to 206, the host and the scheme it was given (the scraper's where they  *)
(* were empty) and the resource with its leading '/', with the content     *)
(* length; for a status from 300 to 307 with a Location header, the        *)
(* netloc, path and scheme of that header with the content length; for a   *)
(* status of 400 or above and for every exception of the connection, None. *)
(* It returns a tuple for no other answer.                                 *)
(***************************************************************************)
C22_Classification ==
    (Checked /\ Usable)
    => LET host == IF probe.host = "" THEN probe.self.netloc ELSE probe.host
           scheme == IF probe.scheme = "" THEN probe.self.scheme
                     ELSE probe.scheme
           resource == IF probe.resource # "" /\ Char(probe.resource, 1) = "/"
                       THEN probe.resource ELSE "/" \o probe.resource
           result == probe.result
       IN /\ Answered(200, 206)
             => result = Returned(Tuple(host, resource, scheme,
                                        probe.answer.length))
          /\ (Answered(300, 307) /\ probe.answer.location # Missing)
             => LET tmp == urlsplit(probe.answer.location[1])
                IN result = Returned(Tuple(tmp.netloc, tmp.path, tmp.scheme,
                                           probe.answer.length))
          /\ (probe.answer.fails # "" \/ Answered(400, 599))
             => result = Returned(Absent)
          /\ (result.exc = "none" /\ result.value # Absent)
             => Answered(200, 206) \/ Answered(300, 307)

\* A 206 for a relative resource asked of the page's own host: the tuple
\* has the scraper's netloc and scheme; and a 404 gave None.
C22_Witness ==
    /\ Checked
    /\ probe.host = ""
    /\ probe.scheme = ""
    /\ probe.resource = "r1"
    /\ probe.answer.status = 206
    /\ probe.result
       = Returned(Tuple("www.python.org", "/r1", "http", Some("120")))

(***************************************************************************)
(* C23.  Redirect resolution.  A call of HttpCheck whose HEAD answer is a  *)
(* 301 with Location http://h2/r2 returns ("h2", "/r2", "http", size),     *)
(* size being the content length of the answer, whatever host and resource *)
(* it was called with.                                                     *)
(***************************************************************************)
C23_RedirectResolution ==
    (/\ Checked
     /\ Usable
     /\ Answered(301, 301)
     /\ probe.answer.location = Some("http://h2/r2"))
    => /\ probe.result.exc = "none"
       /\ probe.result.value
          = Tuple("h2", "/r2", "http", probe.answer.length)
       /\ probe.result.value.netloc # probe.host
       /\ probe.result.value.path # probe.resource

\* The call for (h1, /r1, http) answered by a 301 to http://h2/r2.
C23_Witness ==
    /\ Checked
    /\ probe.host = "h1"
    /\ probe.resource = "/r1"
    /\ probe.scheme = "http"
    /\ Answered(301, 301)
    /\ probe.answer.location = Some("http://h2/r2")
    /\ probe.result = Returned(Tuple("h2", "/r2", "http", Some("120")))

(***************************************************************************)
(* C24.  HttpCheck never raises: for every host, resource and scheme, an   *)
(* empty host or scheme included, and whatever the server does (the        *)
(* connection failing, any status, a 3xx answer without a Location         *)
(* header), the call ends by returning a tuple or None.                    *)
(***************************************************************************)
C24_HttpCheckNeverRaises ==
    Checked
    => /\ probe.result.exc = "none"
       /\ probe.result.value = Absent \/ probe.result.value.kind = "tuple"

\* The calls of HttpLatency that have ended.
Measured == probe.fn = "HttpLatency" /\ probe.result # Pending

\* HttpLatency returns the URLRecord of the target, with the size of the
\* body and the two times, for the statuses of ok, False for those of bad
\* and for every timeout and exception, and raises nothing.
LatencyReturnsBy(ok, bad) ==
    Measured
    => /\ probe.result.exc = "none"
       /\ (probe.answer.fails = "" /\ probe.answer.status \in ok)
          => probe.result.value
             = URLRecord(probe.host, probe.resource, probe.scheme,
                         probe.answer.size, probe.answer.wall,
                         probe.answer.cpu)
       /\ (probe.answer.fails # "" \/ probe.answer.status \in bad)
          => probe.result.value = False

(***************************************************************************)
(* C25, as the spec states it.  HttpLatency returns a URLRecord (size,     *)
(* response time, error time) for every response with a status from 200 to *)
(* 399, and False for every status from 400 to 599, every timeout and      *)
(* every other exception of the connection; it never raises.               *)
(***************************************************************************)
C25_LatencyOn2xx3xx == LatencyReturnsBy(200..399, 400..599)

(***************************************************************************)
(* C25, amended.  HttpLatency returns a URLRecord (size, response time,    *)
(* error time) for every response with a status from 200 to 206 or from    *)
(* 300 to 307, and False for every other status (207 to 299 and 308 to 399 *)
(* included), every timeout and every other exception of the connection;   *)
(* it never raises.                                                        *)
(***************************************************************************)
C25_LatencyOn200To206And300To307 ==
    LatencyReturnsBy((200..206) \cup (300..307),
                     (100..599) \ ((200..206) \cup (300..307)))

\* A 307 gave a URLRecord with the size of the body read.
C25_Witness ==
    /\ Measured
    /\ probe.answer.status = 307
    /\ probe.answer.size = MaxBytes
    /\ probe.result
       = Returned(URLRecord("h1", "/r1", "https", MaxBytes, 2, 1))

(***************************************************************************)
(* HttpScraper.GenUrlList on the candidates files, in their order: the     *)
(* url_list it returns, or the exception of the HttpCheck that ended it.   *)
(* An empty host or prefix is None.                                        *)
(***************************************************************************)
RECURSIVE GenUrlList(_, _, _, _, _)
GenUrlList(self, url_list, files, host, prefix) ==
    IF files = <<>> THEN Returned(url_list)
    ELSE LET f == Head(files).file
             tmp == urlsplit(f)
             Check(h, resource, scheme) ==
                 HttpCheck(self, h, resource, scheme,
                           AnswerOf(HostOf(self, h), Slashed(resource)))
             result ==
                 IF host # ""
                 THEN IF prefix # ""
                      THEN Check(host, "/" \o prefix \o "/" \o tmp.netloc
                                       \o "/" \o tmp.path, "http")
                      ELSE Check(host, tmp.netloc \o "/" \o tmp.path, "http")
                 ELSE IF tmp.netloc \notin BANNED_NETLOCS
                      THEN Check(tmp.netloc, tmp.path, tmp.scheme)
                      ELSE Returned(Absent)
         IN IF f = ""
            THEN GenUrlList(self, url_list, Tail(files), host, prefix)
            ELSE IF result.exc # "none"
                 THEN [value |-> url_list, exc |-> result.exc]
                 ELSE GenUrlList(self,
                                 IF result.value # Absent
                                 THEN Append(url_list, result.value)
                                 ELSE url_list,
                                 Tail(files), host, prefix)

\* Two lists hold the same entries, each as many times.
SameEntries(a, b) ==
    \A x \in Range(a) \cup Range(b) : Count(a, x) = Count(b, x)

\* GenUrlListThreaded has returned, and url_list holds what GenUrlList
\* without host or prefix leaves in it for the same candidates.
SameAsGenUrlList ==
    \A files \in WorkLists("GenUrlListThreaded") :
       Range(files) = Items
       => LET sequential == GenUrlList(Page, <<RootEntry>>, files, "", "")
          IN /\ sequential.exc = "none"
             /\ SameEntries(results, sequential.value)

(***************************************************************************)
(* C27.  GenUrlListThreaded performs the same resolution as GenUrlList     *)
(* called without host or prefix: for every list of candidates, empty      *)
(* strings and banned hosts included, and every max_threads >= 1, both     *)
(* leave url_list with the same entries, each as many times.               *)
(***************************************************************************)
C27_ThreadedSameAsSequential ==
    (target = "GenUrlListThreaded" /\ main = "returned") => SameAsGenUrlList

\* The same for the lists that hold no empty string.
SameWithoutEmptyCandidate ==
    (/\ target = "GenUrlListThreaded"
     /\ main = "returned"
     /\ File("") \notin Items)
    => SameAsGenUrlList

(***************************************************************************)
(* The Host of shell/bash.py and one of the wrappers that run commands on  *)
(* it: an IperfServer, an IperfClient (netlib/net/iperf.py) or a TCPDump   *)
(* (netlib/net/tcpdump.py).  shell holds                                   *)
(*   obj, local: which wrapper it is, and whether its host is the local    *)
(*     one (a command for another host is run through ssh);                *)
(*   process_dict: the processes Host.Run has started, the pid of each     *)
(*     being its place in the list;                                        *)
(*   args, read_args, data, child_pid, length, count, tmp_file: the        *)
(*     wrapper's fields (args is TCPDump's capture_args);                  *)
(*   calls, last: how many calls of the wrapper have ended, and the last.  *)
(* The class attributes pkt and interval are None.                         *)
(***************************************************************************)
MaxShellCalls == 3

KILL_STRING(obj) ==
    IF obj = "TCPDump" THEN "sudo killall -q -r \".*tcpdump*\""
    ELSE "killall -q -r \".*iperf*\""
BIN == "sudo tcpdump"
SNAPLEN == 96
DEFAULT_INTERFACE == "eth0"
TCPDUMP_COUNT == 100

\* ' '.join(list)
RECURSIVE join(_)
join(list) ==
    IF list = <<>> THEN ""
    ELSE IF Len(list) = 1 THEN list[1]
         ELSE list[1] \o " " \o join(Tail(list))

\* str.strip()
Blank == {" ", "\n", "\t"}
RECURSIVE strip(_)
strip(s) ==
    IF s = "" THEN ""
    ELSE IF Char(s, 1) \in Blank THEN strip(SubSeq(s, 2, Len(s)))
         ELSE IF Char(s, Len(s)) \in Blank
              THEN strip(SubSeq(s, 1, Len(s) - 1))
              ELSE s

\* What a command writes to its standard output.
Outputs == {"", " 1.25 MBytes  1.05 Mbits/sec\n"}

\* The subprocess of a command; it runs until it ends of itself, is killed,
\* or communicate() has waited for its end, which returns its output out.
Process(cmd, fork) ==
    [cmd |-> cmd, fork |-> fork, running |-> TRUE, out |-> ""]
Popen(s, cmd, fork) ==
    [s EXCEPT !.process_dict = Append(@, Process(cmd, fork))]
Waited(s, pid) == [s EXCEPT !.process_dict[pid].running = FALSE]
Read(s, pid, out) ==
    [s EXCEPT !.process_dict[pid].running = FALSE,
              !.process_dict[pid].out = out]

\* Host.Poll
Poll(s, pid) == ~s.process_dict[pid].running

\* Host.Kill: the kill string is run on another host first, to its end, and
\* the process is killed if it is still there.
Kill(s, pid, kill_string) ==
    IF Poll(s, pid) THEN s
    ELSE IF s.local THEN Waited(s, pid)
         ELSE Waited(Waited(Popen(s, kill_string, FALSE),
                            Len(s.process_dict) + 1), pid)

\* Host.Communicate: the host after it, and what it returns for the output
\* out of the process.
Communicate(s, pid, kill, kill_string, out) ==
    Read(IF kill THEN Kill(s, pid, kill_string) ELSE s, pid, out)
Output(out) == IF out # "" THEN Some(strip(out)) ELSE Missing

\* Whether communicate() on the process returns: it waits for the end of a
\* process that is not killed.
Returns(s, pid, kill) == kill \/ Poll(s, pid)

\* The end of a call of the wrapper.
Ends(s, name, exc) ==
    [s EXCEPT !.calls = @ + 1,
              !.last = [call |-> name, exc |-> exc, waited |-> FALSE]]

\* IperfServer.Start forking whether or not there is a child process.
IperfServerStartForkingAgain(s, udp) ==
    LET args == s.args \o (IF udp THEN <<"-u">> ELSE <<>>)
    IN Ends([Popen(s, "iperf " \o join(args), TRUE)
                EXCEPT !.args = args,
                       !.child_pid = Len(s.process_dict) + 1],
            "Start", "none")

\* IperfServer.Start
IperfServerStart(s, udp) ==
    LET args == s.args \o (IF udp THEN <<"-u">> ELSE <<>>)
        cmd == "iperf " \o join(args)
        t == [s EXCEPT !.args = args]
    IN Ends(IF s.child_pid = None
            THEN [Popen(t, cmd, TRUE)
                     EXCEPT !.child_pid = Len(s.process_dict) + 1]
            ELSE t,
            "Start", "none")

\* IperfServer.Stop, out being what the server has written.
IperfServerStop(s, out) ==
    Ends(IF s.child_pid # None
         THEN [Communicate(s, s.child_pid, TRUE, KILL_STRING(s.obj), out)
                  EXCEPT !.data = Output(out), !.child_pid = None]
         ELSE s,
         "Stop", "none")

\* IperfClient.Start, out being what a client that is waited for writes;
\* a length, rate or window that is not given is 0 or "".
IperfClientStart(s, length, rate, window, blocking_call, out) ==
    LET args0 == s.args \o (IF length # 0
                            THEN <<"-t " \o FormatInt(length)>> ELSE <<>>)
        udp == rate # "" /\ window = ""
        tcp == window # "" /\ rate = ""
        args == args0 \o (IF udp THEN <<"-b " \o rate>>
                          ELSE IF tcp THEN <<"-w " \o window>> ELSE <<>>)
        cmd == (IF udp THEN "iperf -u " ELSE "iperf ") \o join(args)
        t == [s EXCEPT !.length = length, !.args = args]
        pid == Len(s.process_dict) + 1
    IN IF ~udp /\ ~tcp /\ (window # "" \/ rate # "")
       THEN Ends(t, "Start", "AssertionError")
       ELSE IF s.child_pid # None THEN Ends(t, "Start", "none")
            ELSE IF length # 0 /\ blocking_call
                 THEN [Ends([Read(Popen(t, cmd, FALSE), pid, out)
                                EXCEPT !.data = Output(out),
                                       !.child_pid = None],
                            "Start", "none")
                          EXCEPT !.last.waited = TRUE]
                 ELSE Ends([Popen(t, cmd, TRUE) EXCEPT !.child_pid = pid],
                           "Start", "none")

\* IperfClient.Stop
IperfClientStop(s, out) ==
    Ends(IF s.child_pid # None
         THEN [Communicate(s, s.child_pid, s.length = 0, KILL_STRING(s.obj),
                           out)
                  EXCEPT !.data = Output(out), !.child_pid = None]
         ELSE s,
         "Stop", "none")

\* TCPDump.Start on the default interface; a src, dst or count that is not
\* given is "" or 0.
TCPDumpStart(s, src, dst, count) ==
    LET capture_args ==
            s.args
            \o <<"-i " \o DEFAULT_INTERFACE, "-w " \o s.tmp_file,
                 "-s " \o FormatInt(SNAPLEN)>>
            \o (IF count # 0 THEN <<"-c " \o FormatInt(count)>> ELSE <<>>)
            \o (IF src # ""
                THEN <<"ip src " \o src>>
                     \o (IF dst # "" THEN <<"and dst " \o dst>> ELSE <<>>)
                ELSE IF dst # "" THEN <<"ip dst " \o dst>> ELSE <<>>)
        read_args ==
            s.read_args \o <<"-tt", "-v", "-n", "-S", "-r " \o s.tmp_file>>
        cmd == BIN \o " " \o join(capture_args)
        t == [s EXCEPT !.args = capture_args, !.read_args = read_args,
                       !.count = IF count # 0 THEN count ELSE @]
    IN Ends(IF s.child_pid = None
            THEN [Popen(t, cmd, TRUE)
                     EXCEPT !.child_pid = Len(s.process_dict) + 1]
            ELSE t,
            "Start", "none")

\* TCPDump.Stop
TCPDumpStop(s, out) ==
    LET t == Communicate(s, s.child_pid, s.count = 0, KILL_STRING(s.obj),
                         out)
        cmd == BIN \o " " \o join(s.read_args)
    IN Ends(IF s.child_pid # None
            THEN [Popen(t, cmd, TRUE)
                     EXCEPT !.data = Output(out),
                            !.child_pid = Len(t.process_dict) + 1]
            ELSE s,
            "Stop", "none")

\* TCPDump.Restart on the default interface: Stop, then Start with the
\* arguments of the call, which the end of the call records.
TCPDumpRestart(s, src, dst, count, out) ==
    LET stopped == TCPDumpStop(s, out)
        started == TCPDumpStart(stopped, src, dst, count)
    IN [started EXCEPT !.calls = s.calls + 1,
                       !.last = [call |-> "Restart", exc |-> "none",
                                 waited |-> FALSE, src |-> src, dst |-> dst,
                                 count |-> count]]

\* TCPDump.Results up to its assertion
TCPDumpResults(s, out) ==
    LET t == IF s.child_pid # None
             THEN [Communicate(s, s.child_pid, FALSE, "", out)
                      EXCEPT !.data = Output(out), !.child_pid = None]
             ELSE s
    IN Ends(t, "Results",
            IF t.data = Missing THEN "AssertionError" ELSE "none")

\* The wrapper after __init__; TCPDump's has run mktemp for its tmp_file.
Wrapper(obj, local) ==
    [obj |-> obj, local |-> local,
     process_dict |-> IF obj = "TCPDump"
                      THEN <<[cmd |-> "mktemp -t tcpdump.dat.XXXXXXXXXX",
                              fork |-> FALSE, running |-> FALSE,
                              out |-> "/tmp/tcpdump.dat.a1\n"]>>
                      ELSE <<>>,
     args |-> CASE obj = "IperfServer" -> <<"-s">>
                [] obj = "IperfClient" -> <<"-c a.dst">>
                [] OTHER -> <<>>,
     read_args |-> <<>>, data |-> Missing, child_pid |-> None, length |-> 0,
     count |-> 0,
     tmp_file |-> IF obj = "TCPDump" THEN strip("/tmp/tcpdump.dat.a1\n")
                  ELSE "",
     calls |-> 0,
     last |-> [call |-> "__init__", exc |-> "none", waited |-> FALSE]]

InitShell ==
    /\ InitService
    /\ ev = CallEnded("__init__", Returned(PyNone), FALSE)
    /\ NoPool
    /\ NoProbe
    /\ \E obj \in {"IperfServer", "IperfClient", "TCPDump"},
          local \in BOOLEAN :
          shell = Wrapper(obj, local)

\* A call of the wrapper can begin; one that waits for the child process
\* returns when that has ended.
CanCall(obj) == shell.obj = obj /\ shell.calls < MaxShellCalls
CanStop(kill) ==
    shell.child_pid # None => Returns(shell, shell.child_pid, kill)

ServerStarts ==
    /\ CanCall("IperfServer")
    /\ \E udp \in BOOLEAN : shell' = IperfServerStart(shell, udp)
    /\ UNCHANGED <<dataVars, poolVars, probe>>

ServerStops ==
    /\ CanCall("IperfServer")
    /\ \E out \in Outputs : shell' = IperfServerStop(shell, out)
    /\ UNCHANGED <<dataVars, poolVars, probe>>

ClientStarts ==
    /\ CanCall("IperfClient")
    /\ \E length \in {0, 10}, blocking_call \in BOOLEAN, out \in Outputs,
          given \in {<<"", "">>, <<"10M", "">>, <<"", "64K">>,
                     <<"10M", "64K">>} :
          shell' = IperfClientStart(shell, length, given[1], given[2],
                                    blocking_call, out)
    /\ UNCHANGED <<dataVars, poolVars, probe>>

ClientStops ==
    /\ CanCall("IperfClient")
    /\ CanStop(shell.length = 0)
    /\ \E out \in Outputs : shell' = IperfClientStop(shell, out)
    /\ UNCHANGED <<dataVars, poolVars, probe>>

CaptureStarts ==
    /\ CanCall("TCPDump")
    /\ \E count \in {0, TCPDUMP_COUNT},
          filter \in {<<"", "">>, <<"10.0.0.1", "10.0.0.2">>,
                      <<"", "10.0.0.2">>} :
          shell' = TCPDumpStart(shell, filter[1], filter[2], count)
    /\ UNCHANGED <<dataVars, poolVars, probe>>

CaptureStops ==
    /\ CanCall("TCPDump")
    /\ CanStop(shell.count = 0)
    /\ \E out \in Outputs : shell' = TCPDumpStop(shell, out)
    /\ UNCHANGED <<dataVars, poolVars, probe>>

CaptureRestarts ==
    /\ CanCall("TCPDump")
    /\ CanStop(shell.count = 0)
    /\ \E out \in Outputs, count \in {0, TCPDUMP_COUNT},
          filter \in {<<"", "">>, <<"10.0.0.1", "10.0.0.2">>} :
          shell' = TCPDumpRestart(shell, filter[1], filter[2], count, out)
    /\ UNCHANGED <<dataVars, poolVars, probe>>

CaptureResults ==
    /\ CanCall("TCPDump")
    /\ CanStop(FALSE)
    /\ \E out \in Outputs : shell' = TCPDumpResults(shell, out)
    /\ UNCHANGED <<dataVars, poolVars, probe>>

\* A process that is running ends of itself.
ProcessEnds ==
    /\ shell # <<>>
    /\ \E pid \in DOMAIN shell.process_dict :
          /\ shell.process_dict[pid].running
          /\ shell' = Waited(shell, pid)
    /\ UNCHANGED <<dataVars, poolVars, probe>>

NextShell ==
    \/ ServerStarts
    \/ ServerStops
    \/ ClientStarts
    \/ ClientStops
    \/ CaptureStarts
    \/ CaptureStops
    \/ CaptureRestarts
    \/ CaptureResults
    \/ ProcessEnds

SpecShell == InitShell /\ [][NextShell]_vars

\* str.endswith
endswith(s, suffix) ==
    Len(s) >= Len(suffix)
    /\ SubSeq(s, Len(s) - Len(suffix) + 1, Len(s)) = suffix

\* A call of the iperf wrapper's Start or Stop ends in this step, the
\* wrapper having no child process (idle) or having one (busy).
IperfCall(name) ==
    /\ shell.obj \in {"IperfServer", "IperfClient"}
    /\ shell'.calls = shell.calls + 1
    /\ shell'.last.call = name
Idle == shell.child_pid = None
Processes == Len(shell.process_dict)

\* The step has forked one process, and child_pid is its pid.
ForkedChild ==
    /\ Len(shell'.process_dict) = Processes + 1
    /\ shell'.child_pid = Processes + 1
    /\ shell'.process_dict[Processes + 1].fork
    /\ shell'.process_dict[Processes + 1].running

\* After Stop child_pid is None and, if there was a child process, it has
\* ended and data is its output, or None when it wrote nothing.
StopCollects ==
    IperfCall("Stop")
    => /\ shell'.child_pid = None
       /\ ~Idle
          => /\ ~shell'.process_dict[shell.child_pid].running
             /\ shell'.data = Output(shell'.process_dict[shell.child_pid].out)

\* Start on a wrapper that has a child process starts no process.
BusyStartForksNothing ==
    (IperfCall("Start") /\ ~Idle)
    => /\ Len(shell'.process_dict) = Processes
       /\ shell'.child_pid = shell.child_pid

(***************************************************************************)
(* C28, as the spec states it.  After Start on an idle IperfServer or      *)
(* IperfClient child_pid refers to a forked process; after Stop child_pid  *)
(* is None and the output of the process has been collected into data;     *)
(* Start on an instance that has a child process does not fork a second.   *)
(***************************************************************************)
C28_IperfLifecycle ==
    [][/\ (IperfCall("Start") /\ Idle) => ForkedChild
       /\ StopCollects
       /\ BusyStartForksNothing]_vars

(***************************************************************************)
(* C28, amended.  After a Start on an idle IperfServer or IperfClient      *)
(* child_pid refers to a process that Start has forked, but for two cases  *)
(* of IperfClient.Start: with a length and blocking_call it runs iperf to  *)
(* its end, collects its output into data and leaves child_pid None; with  *)
(* both a rate and a window it raises AssertionError and starts no         *)
(* process.  After Stop child_pid is None and the output of the child      *)
(* process, if there was one, has been collected into data; Start on an    *)
(* instance that has a child process does not fork a second.               *)
(***************************************************************************)
C28_IperfLifecycleButBlocking ==
    [][/\ (IperfCall("Start") /\ Idle)
          => IF shell'.last.exc # "none"
             THEN /\ Len(shell'.process_dict) = Processes
                  /\ shell'.child_pid = None
             ELSE IF shell'.last.waited
                  THEN /\ shell.obj = "IperfClient"
                       /\ shell'.length # 0
                       /\ shell'.child_pid = None
                       /\ Len(shell'.process_dict) = Processes + 1
                       /\ ~shell'.process_dict[Processes + 1].fork
                       /\ ~shell'.process_dict[Processes + 1].running
                       /\ shell'.data
                          = Output(shell'.process_dict[Processes + 1].out)
                  ELSE ForkedChild
       /\ StopCollects
       /\ BusyStartForksNothing]_vars

\* An IperfServer on another host was started twice and stopped: one iperf
\* was forked, the kill string run, and the output is in data.
C28_Witness ==
    /\ shell.obj = "IperfServer"
    /\ ~shell.local
    /\ shell.calls = 3
    /\ shell.last.call = "Stop"
    /\ shell.child_pid = None
    /\ Len(shell.process_dict) = 2
    /\ shell.process_dict[1].cmd = "iperf -s -u"
    /\ ~shell.process_dict[1].running
    /\ shell.process_dict[2].cmd = KILL_STRING("IperfServer")
    /\ shell.data = Some("1.25 MBytes  1.05 Mbits/sec")

\* A TCPDump.Stop ends in this step, on a capture that was started.
CaptureStop ==
    /\ shell.obj = "TCPDump"
    /\ shell'.calls = shell.calls + 1
    /\ shell'.last.call = "Stop"
    /\ shell.child_pid # None

\* The capture process has ended, and a process reading the dump file has
\* been started after it.
CaptureReadIssued ==
    /\ ~shell'.process_dict[shell.child_pid].running
    /\ \E pid \in DOMAIN shell'.process_dict \ DOMAIN shell.process_dict :
          /\ startswith(shell'.process_dict[pid].cmd, BIN \o " -tt -v -n -S ")
          /\ endswith(shell'.process_dict[pid].cmd, " -r " \o shell.tmp_file)

(***************************************************************************)
(* C29.  After TCPDump.Stop on a started capture, the capture process has  *)
(* been stopped, the read command for the dump file has been issued, and   *)
(* child_pid is None.                                                      *)
(***************************************************************************)
C29_CaptureStop ==
    [][CaptureStop => (CaptureReadIssued /\ shell'.child_pid = None)]_vars

\* The same, child_pid being the pid of the process that reads the file.
CaptureStopLeavesReader ==
    [][CaptureStop
       => /\ CaptureReadIssued
          /\ shell'.child_pid = Len(shell'.process_dict)
          /\ shell'.process_dict[shell'.child_pid].fork]_vars

(***************************************************************************)
(* C31.  A worker that has served the GET of Stop leaves its loop once     *)
(* Stop has set keep_running to False: when Stop runs to its end on a      *)
(* server whose worker is the only one alive, and so the one that served   *)
(* the GET, the join has succeeded and terminate() is not called.          *)
(***************************************************************************)
C31_WorkerLeavesLoop ==
    [][(StopEnds /\ DOMAIN procs = {server}) => ~ev'.terminated]_vars

(***************************************************************************)
(* C32.  Whenever Stop calls terminate() on a worker still alive after     *)
(* the join, the same call of Stop logs a warning.                         *)
(***************************************************************************)
C32_TerminationIsLogged ==
    [][(pc = "Recv" /\ pc' = "idle" /\ ev'.terminated) => ev'.warned]_vars

\* Worker pid of the state after the step was forked in the step: by Start,
\* or by the Start that follows Stop in Restart and AddData (which may give
\* it the pid of the worker that Stop ended).
ForkedInStep(pid) ==
    /\ pid \in DOMAIN procs'
    /\ \/ pid \notin DOMAIN procs
       \/ pc = "Recv" /\ pc' = "idle" /\ pid = server'

(***************************************************************************)
(* C33.  The path store and the address store a worker serves from are     *)
(* those the controller held when it started the worker: a worker forked   *)
(* in a step has the controller's two stores of that moment, and no step,  *)
(* of the controller or of a client, changes the two stores of a worker    *)
(* that stays alive.                                                       *)
(***************************************************************************)
C33_WorkerViewFixedAtStart ==
    [][\A pid \in DOMAIN procs' :
          IF ForkedInStep(pid)
          THEN /\ procs'[pid].stores.all_data_store = all_data_store'
               /\ procs'[pid].stores.ip_data_store = ip_data_store'
          ELSE /\ procs'[pid].stores.all_data_store
                     = procs[pid].stores.all_data_store
               /\ procs'[pid].stores.ip_data_store
                     = procs[pid].stores.ip_data_store]_vars

\* The worker the server holds was started with a value in each of the two
\* stores, has served a POST since, and still has the controller's two
\* stores.
C33_Witness ==
    /\ ev.kind = "POST"
    /\ ev.pid = server
    /\ server \in DOMAIN procs
    /\ procs[server].stores.all_data_store # EmptyStore
    /\ procs[server].stores.ip_data_store # EmptyStore
    /\ procs[server].stores.data_recv # EmptyStore
    /\ procs[server].stores.all_data_store = all_data_store
    /\ procs[server].stores.ip_data_store = ip_data_store

(***************************************************************************)
(* C36.  At most one worker process is alive at any time, and a worker     *)
(* that is alive is the one whose handle the server holds, whatever calls  *)
(* of Start, Stop, Restart and AddData were made.                          *)
(***************************************************************************)
C36_OneWorkerHeld ==
    /\ Cardinality(DOMAIN procs) <= 1
    /\ DOMAIN procs \subseteq {server}

(***************************************************************************)
(* C37.  The controller's received store only grows or is overwritten: no  *)
(* step removes a key from it, and a worker forked in a step starts with   *)
(* a received store that has every key the controller's has at that        *)
(* moment.                                                                 *)
(***************************************************************************)
C37_ReceivedStoreGrows ==
    [][/\ DOMAIN data_recv \subseteq DOMAIN data_recv'
       /\ \A pid \in DOMAIN procs' :
             ForkedInStep(pid)
             => DOMAIN data_recv' \subseteq DOMAIN procs'[pid].stores.data_recv]_vars

\* Restart returned on a running server: the controller's received store
\* has the key Stop merged, and so has the store of the worker started
\* after it.
C37_Witness ==
    /\ ev.kind = "Restart"
    /\ ev.drained
    /\ "up_10.0.0.5" \in DOMAIN data_recv
    /\ server \in DOMAIN procs
    /\ "up_10.0.0.5" \in DOMAIN procs[server].stores.data_recv

(***************************************************************************)
(* C38.  After Stop the controller's received store is what it was before  *)
(* Stop, overridden by the received store of the worker as it was when the *)
(* worker answered the GET of Stop: the answer is the store of the worker  *)
(* that serves the GET, at that moment; a POST served after it leaves the  *)
(* answer as it is; and when Stop ends the store is the old one overridden *)
(* by the answer, so that a key stored under only after the GET was        *)
(* answered is not in what Results() returns.                              *)
(***************************************************************************)
C38_DrainIsTheOnlySync ==
    [][/\ (drain.state = "sent" /\ drain'.state = "answered")
          => \E pid \in DOMAIN procs :
                /\ Snapshot'.type = "dict"
                /\ Snapshot'.items = procs[pid].stores.data_recv
       /\ (PostStep /\ drain.state = "answered") => drain' = drain
       /\ StopEnds
          => /\ DOMAIN data_recv' = DOMAIN data_recv \cup DOMAIN Snapshot.items
             /\ \A k \in DOMAIN data_recv' :
                   data_recv'[k] = IF k \in DOMAIN Snapshot.items
                                   THEN Snapshot.items[k] ELSE data_recv[k]
             /\ \A k \in late \ (DOMAIN data_recv \cup DOMAIN Snapshot.items) :
                   k \notin DOMAIN data_recv']_vars

\* Stop ran to its end and merged a value; a worker had stored a value
\* under another key after answering the GET, with 200 to the client, and
\* that key is not in the controller's received store.
C38_Witness ==
    /\ pc = "idle"
    /\ ev.kind = "Stop"
    /\ ev.drained
    /\ data_recv # EmptyStore
    /\ \E k \in late : k \notin DOMAIN data_recv

\* No request was sent to a banned host.
NoBannedHostRequested == requested \cap BANNED_NETLOCS = {}

\* No entry of a list of results is on a banned host.
NoBannedEntry(list) ==
    \A i \in 1..Len(list) : list[i].netloc \notin BANNED_NETLOCS

(***************************************************************************)
(* C34.  Denylist.  With no host given, the scraper's workers send no      *)
(* request to a banned host and append no entry whose host is banned; and  *)
(* GenUrlList without host or prefix, for the same candidates, leaves no   *)
(* such entry in url_list either.                                          *)
(***************************************************************************)
C34_Denylist ==
    target = "GenUrlListThreaded"
    => /\ NoBannedHostRequested
       /\ NoBannedEntry(Found)
       /\ main = "returned"
          => NoBannedEntry(Tail(GenUrlList(Page, <<RootEntry>>, self_files,
                                           "", "").value))

\* The part that holds: the workers send no request to a banned host, and
\* a worker that has a candidate on a banned host ends without an append.
BannedCandidateDropped ==
    [][target = "GenUrlListThreaded"
       => /\ NoBannedHostRequested'
          /\ \A u \in Items :
                (/\ urlsplit(u.file).netloc \in BANNED_NETLOCS
                 /\ BagIn(Thread("probe", u), threads)
                 /\ ~BagIn(Thread("probe", u), threads'))
                => results' = results /\ requested' = requested]_vars

(***************************************************************************)
(* C39.  Work-list ownership.  GenUrlListThreaded pops from a copy: the    *)
(* scraper's self.files is at every moment the list of candidates it was   *)
(* called with.  ThreadedLatency pops from the list of the caller.  Either *)
(* way the list the workers pop from is empty when the pool returns, and   *)
(* a step leaves it as it is or takes its last item off: no item is put    *)
(* back.                                                                   *)
(***************************************************************************)
C39_WorkListOwnership ==
    /\ [](target = "GenUrlListThreaded"
          => /\ Range(self_files) = Items
             /\ Len(self_files) = Cardinality(Items))
    /\ [](main = "returned" => work = <<>>)
    /\ [][/\ self_files' = self_files
          /\ work' = work \/ (work # <<>> /\ work' = Front(work))]_vars

\* GenUrlListThreaded has returned: its copy is empty and the scraper's
\* self.files holds the candidates still.
C39_Witness ==
    /\ target = "GenUrlListThreaded"
    /\ main = "returned"
    /\ work = <<>>
    /\ Len(self_files) = MaxItems
    /\ \A u \in Items : popped[u] = 1

CaptureRestart ==
    /\ shell.obj = "TCPDump"
    /\ shell'.calls = shell.calls + 1
    /\ shell'.last.call = "Restart"
    /\ shell.child_pid # None
    /\ shell.last.call = "Start"

\* The capture command of a Start with the arguments of the Restart that
\* ended, and those only: what a new TCPDump on the host runs for them.
RestartCommand ==
    LET fresh == TCPDumpStart(Wrapper("TCPDump", shell.local), shell'.last.src,
                              shell'.last.dst, shell'.last.count)
    IN fresh.process_dict[fresh.child_pid].cmd

(***************************************************************************)
(* C35.  TCPDump.Restart on a capturing instance stops the capture and     *)
(* starts a new one: the capture process has ended, a capture command with *)
(* the arguments of the call, and those only, has been issued after it,    *)
(* and child_pid is the pid of that process.                               *)
(***************************************************************************)
C35_RestartStartsCapture ==
    [][CaptureRestart
       => /\ ~shell'.process_dict[shell.child_pid].running
          /\ shell'.child_pid \in
                DOMAIN shell'.process_dict \ DOMAIN shell.process_dict
          /\ shell'.process_dict[shell'.child_pid].cmd = RestartCommand]_vars

\* What Restart does: the capture process has ended, no capture command
\* is issued after it, child_pid is the pid of the process Stop starts to
\* read the dump file, and the arguments of the call are added to those of
\* the Start before it.
RestartLeavesReader ==
    [][CaptureRestart
       => /\ CaptureReadIssued
          /\ \A pid \in DOMAIN shell'.process_dict \ DOMAIN shell.process_dict :
                ~startswith(shell'.process_dict[pid].cmd, BIN \o " -i ")
          /\ shell'.child_pid = Len(shell'.process_dict)
          /\ startswith(shell'.process_dict[shell'.child_pid].cmd,
                        BIN \o " -tt ")
          /\ Len(shell'.args) > Len(shell.args)]_vars

====
